---- MODULE Spec2Model ----
(***************************************************************************)
(* Model of the ethos.privacy confidential-data gateway:                   *)
(*   PrivacyDataSecurity.protect / restore / audit / revoke_session /      *)
(*   purge_session over UniversalScanner, Vault (MemoryBackend, AuditLog,  *)
(*   AccessControl, AlertEngine) and TokenResolver.                        *)
(*                                                                         *)
(* Python strings are sequences of one-character strings, so that          *)
(* str.replace, slicing and the token regular expression are computed      *)
(* character by character.  An absent dict key / None is the empty tuple   *)
(* and a present value v is the one-element tuple <<v>>.                   *)
(***************************************************************************)
EXTENDS Integers, Sequences, FiniteSets, TLC

\* ---------------------------------------------------------------- bounds
\* number of protect() calls explored in one behaviour
MaxProtects == 2
\* number of revoke_session() / purge_session() calls in one behaviour
MaxAdminOps == 1
\* number of restore() / retrieve() / audit() calls in one behaviour
MaxReadOps == 1
\* number of clock advances in one behaviour
MaxTicks == 1
\* number of tokens a hand-written restore() content may carry
MaxContentTokens == 2

\* ------------------------------------------------------ string primitives
\* s[a:b] of Python for 0 <= a, b (half-open, clipped to the length)
Slice(s, a, b) ==
    LET hi == IF b > Len(s) THEN Len(s) ELSE b
    IN IF a >= hi THEN <<>> ELSE SubSeq(s, a + 1, hi)

\* TRUE iff pat occurs in s starting at 1-based index i
MatchAt(s, pat, i) ==
    /\ i >= 1
    /\ i + Len(pat) - 1 <= Len(s)
    /\ \A k \in 1..Len(pat) : s[i + k - 1] = pat[k]

\* Python's  pat in s
Contains(s, pat) ==
    \E i \in 1..(Len(s) + 1) : MatchAt(s, pat, i)

RECURSIVE ReplaceFrom(_, _, _, _)
ReplaceFrom(s, old, new, i) ==
    IF i > Len(s) THEN <<>>
    ELSE IF MatchAt(s, old, i) THEN new \o ReplaceFrom(s, old, new, i + Len(old))
    ELSE <<s[i]>> \o ReplaceFrom(s, old, new, i + 1)

\* Python's s.replace(old, new) for a non-empty old: leftmost,
\* non-overlapping occurrences, scanned once
Replace(s, old, new) ==
    IF old = <<>> THEN s ELSE ReplaceFrom(s, old, new, 1)

RECURSIVE CountFrom(_, _, _)
CountFrom(s, pat, i) ==
    IF i > Len(s) THEN 0
    ELSE IF MatchAt(s, pat, i) THEN 1 + CountFrom(s, pat, i + Len(pat))
    ELSE CountFrom(s, pat, i + 1)

\* Python's s.count(pat) for a non-empty pat
Count(s, pat) == IF pat = <<>> THEN 0 ELSE CountFrom(s, pat, 1)

\* the elements of a sequence
Range(s) == {s[i] : i \in 1..Len(s)}

\* ---------------------------------------------------------- token engine
LowerLetters ==
    <<"a","b","c","d","e","f","g","h","i","j","k","l","m",
      "n","o","p","q","r","s","t","u","v","w","x","y","z">>

UpperLetters ==
    <<"A","B","C","D","E","F","G","H","I","J","K","L","M",
      "N","O","P","Q","R","S","T","U","V","W","X","Y","Z">>

DigitChars == {"0","1","2","3","4","5","6","7","8","9"}

\* [A-F0-9]
HexChars == DigitChars \cup {"A","B","C","D","E","F"}

\* [A-Z0-9_]
TypeTailChars == Range(UpperLetters) \cup DigitChars \cup {"_"}

\* str.upper() on one character
Upper(c) ==
    IF c \in Range(LowerLetters)
    THEN UpperLetters[CHOOSE i \in 1..26 : LowerLetters[i] = c]
    ELSE c

_OPEN == "⟨"

_CLOSE == "⟩"

_PREFIX == <<"T","K","N">>

\* regex.sub(r"[^A-Za-z0-9_]", "_", type_name).upper()[:20], "UNKNOWN" if empty
SafeType(type_name) ==
    LET subbed == [i \in 1..Len(type_name) |->
                     IF \/ type_name[i] \in Range(LowerLetters)
                        \/ type_name[i] \in TypeTailChars
                     THEN Upper(type_name[i]) ELSE "_"]
        cut == Slice(subbed, 0, 20)
    IN IF cut = <<>> THEN <<"U","N","K","N","O","W","N">> ELSE cut

\* generate_token with the 4 random bytes given as their 8 hex characters
generate_token(type_name, rand_hex) ==
    <<_OPEN>> \o _PREFIX \o <<"_">> \o SafeType(type_name) \o <<"_">>
      \o rand_hex \o <<_CLOSE>>

\* length of the longest run of [A-Z0-9_] characters of s starting at i
RECURSIVE RunLen(_, _)
RunLen(s, i) ==
    IF i > Len(s) THEN 0
    ELSE IF s[i] \in TypeTailChars THEN 1 + RunLen(s, i + 1)
    ELSE 0

\* Length of the match of TOKEN_RE anchored at 1-based index i, 0 if none.
\* The closing delimiter is outside every character class of the pattern,
\* so the only candidate is the whole run of [A-Z0-9_] after "⟨TKN_".
TokenMatchLen(s, i) ==
    LET head == <<_OPEN>> \o _PREFIX \o <<"_">>
        b    == i + Len(head)
        n    == RunLen(s, b)
        e    == b + n
    IN IF /\ MatchAt(s, head, i)
          /\ n >= 10
          /\ e <= Len(s)
          /\ s[e] = _CLOSE
          /\ s[b] \in Range(UpperLetters)
          /\ s[e - 9] = "_"
          /\ \A k \in (e - 8)..(e - 1) : s[k] \in HexChars
       THEN e - i + 1
       ELSE 0

\* TOKEN_RE.fullmatch(token)
validate_token(token) ==
    /\ Len(token) > 0
    /\ TokenMatchLen(token, 1) = Len(token)

RECURSIVE FindFrom(_, _)
FindFrom(s, i) ==
    IF i > Len(s) THEN <<>>
    ELSE LET n == TokenMatchLen(s, i)
         IN IF n > 0
            THEN <<SubSeq(s, i, i + n - 1)>> \o FindFrom(s, i + n)
            ELSE FindFrom(s, i + 1)

\* the token strings of TOKEN_SCAN_RE.finditer(text), left to right
find_tokens(text) == FindFrom(text, 1)

\* ----------------------------------------------------------------- state
\* The state of one gateway instance: the vault backend's _store, the audit
\* log's _entries, the alert engine's _fired_alerts, the vault's _expiry_mins,
\* the scanner's enabled_families and the resolver's _strict_session and
\* _leave_unresolved; now is the wall clock.  The other
\* variables record the calls made and bound their number.
VARIABLES _store, _entries, _fired_alerts, now, last, issued, revoked_sessions, audit_sessions, _expiry_mins, enabled_families, _strict_session, _leave_unresolved, n_protect, n_admin, n_read, n_tick

vars == <<_store, _entries, _fired_alerts, now, last, issued, revoked_sessions, audit_sessions, _expiry_mins, enabled_families, _strict_session, _leave_unresolved, n_protect, n_admin, n_read, n_tick>>

\* ---------------------------------------------------------- configuration
\* PrivacyConfig defaults
token_expiry_minutes == 60

alerts_enabled == TRUE

critical_families == {"SECRETS", "FINANCIAL"}

recommend_rotation == TRUE

strict_session == TRUE

leave_unresolved == TRUE

\* scanner.safe_fields, lower-cased: no field is allowlisted by default
_safe_fields == {}

\* alert_engine._ROTATION_TYPES, as character sequences
_ROTATION_TYPES ==
    { <<"O","P","E","N","A","I","_","K","E","Y">>,
      <<"A","W","S","_","A","C","C","E","S","S","_","K","E","Y">>,
      <<"A","W","S","_","S","E","C","R","E","T","_","K","E","Y">>,
      <<"G","I","T","H","U","B","_","T","O","K","E","N">>,
      <<"G","O","O","G","L","E","_","A","P","I","_","K","E","Y">>,
      <<"S","T","R","I","P","E","_","K","E","Y">>,
      <<"S","L","A","C","K","_","T","O","K","E","N">>,
      <<"T","W","I","L","I","O","_","K","E","Y">>,
      <<"J","W","T","_","T","O","K","E","N">>,
      <<"B","E","A","R","E","R","_","T","O","K","E","N">>,
      <<"O","A","U","T","H","_","T","O","K","E","N">>,
      <<"G","E","N","E","R","I","C","_","P","A","S","S","W","O","R","D">>,
      <<"P","R","I","V","A","T","E","_","R","S","A","_","K","E","Y">>,
      <<"S","S","H","_","P","R","I","V","A","T","E","_","K","E","Y">>,
      <<"D","B","_","C","O","N","N","E","C","T","I","O","N","_","S","T","R","I","N","G">>,
      <<"R","E","D","I","S","_","U","R","L">>,
      <<"D","O","C","K","E","R","_","S","E","C","R","E","T">>,
      <<"K","U","B","E","R","N","E","T","E","S","_","S","E","C","R","E","T">> }

\* ------------------------------------------------------------ audit log
\* audit_log._mask_token
_mask_token(token) ==
    IF Len(token) > 16 THEN Slice(token, 0, 16) \o <<".", ".", ".">> ELSE token

\* audit_log._mask_session
_mask_session(session_id) ==
    IF Len(session_id) > 12
    THEN Slice(session_id, 0, 12) \o <<".", ".", ".">>
    ELSE session_id

\* AuditLog.record: the list after appending one entry.  data_type, family
\* and count are the keyword extras, <<>> when the call does not pass them.
record(log, t, operation, token, session_id, caller, result, data_type, family, count) ==
    Append(log, [ timestamp  |-> t,
                  operation  |-> operation,
                  token      |-> _mask_token(token),
                  session_id |-> _mask_session(session_id),
                  caller     |-> caller,
                  result     |-> result,
                  data_type  |-> data_type,
                  family     |-> family,
                  count      |-> count ])

\* a subsequence filter that keeps the order of the list
RECURSIVE FilterSeq(_, _, _)
FilterSeq(log, masked, i) ==
    IF i > Len(log) THEN <<>>
    ELSE IF log[i].session_id = masked
         THEN <<log[i]>> \o FilterSeq(log, masked, i + 1)
         ELSE FilterSeq(log, masked, i + 1)

\* AuditLog.get_entries(session_id=...): an empty session id is falsy and
\* selects everything
get_entries(log, session_id) ==
    IF session_id = <<>> THEN log
    ELSE FilterSeq(log, _mask_session(session_id), 1)

\* -------------------------------------------------------- access control
OWNER == "OWNER"

RESOLVER == "RESOLVER"

_ALLOWED_CALLERS == {OWNER, RESOLVER}

\* AccessControl.check without rule 2, the session comparison
AccessControlCheck_NoSessionRule(caller, request_session_id, token_session_id) ==
    caller \in _ALLOWED_CALLERS

\* AccessControl.check without rule 1, the caller test
AccessControlCheck_NoCallerRule(caller, request_session_id, token_session_id) ==
    request_session_id = token_session_id

\* AccessControl.check: TRUE iff it returns without raising
AccessControlCheck(caller, request_session_id, token_session_id) ==
    /\ caller \in _ALLOWED_CALLERS
    /\ request_session_id = token_session_id

\* --------------------------------------------------------------- backend
_FRAMEWORK_SECRET == "ethos-ai-framework-vault-secret-v1-changeme-in-production"

\* a key derivation that leaves the session id out
_derive_key_Shared(session_id) == <<_FRAMEWORK_SECRET>>

\* the PBKDF2 key is a function of the framework secret and the session id
\* (the salt); different salts are taken to give different keys
_derive_key(session_id) == <<_FRAMEWORK_SECRET, session_id>>

\* AES-GCM ciphertext: opaque, opens only under the key that sealed it
encrypt_value(plaintext, session_id) ==
    [key |-> _derive_key(session_id), sealed |-> plaintext]

\* <<plaintext>>, or <<>> when the authentication tag does not verify
decrypt_value(encrypted, session_id) ==
    IF encrypted.key = _derive_key(session_id)
    THEN <<encrypted.sealed>> ELSE <<>>

\* a backend store that writes the entry whatever the store holds
BackendStore_Overwrite(st, token, entry) ==
    [store |-> [k \in (DOMAIN st) \cup {token} |->
                   IF k = token THEN entry ELSE st[k]],
     raised |-> FALSE]

\* MemoryBackend.store: same token and same session is a silent no-op, same
\* token under another session raises ValueError
BackendStore(st, token, entry) ==
    IF token \in DOMAIN st
    THEN IF st[token].session_id = entry.session_id
         THEN [store |-> st, raised |-> FALSE]
         ELSE [store |-> st, raised |-> TRUE]
    ELSE [store |-> [k \in (DOMAIN st) \cup {token} |->
                        IF k = token THEN entry ELSE st[k]],
          raised |-> FALSE]

\* a listing that does not look at the session id
list_tokens_for_session_All(st, session_id) == DOMAIN st

\* MemoryBackend.list_tokens_for_session (only its length and members are used)
list_tokens_for_session(st, session_id) ==
    {k \in DOMAIN st : st[k].session_id = session_id}

\* MemoryBackend.revoke applied to every token of the list
BackendRevokeAll(st, tokens) ==
    [k \in DOMAIN st |->
        IF k \in tokens THEN [st[k] EXCEPT !.revoked = TRUE] ELSE st[k]]

\* a purge that flags the entries of the session instead of deleting them
BackendPurge_SoftDelete(st, session_id) ==
    [k \in DOMAIN st |->
        IF st[k].session_id = session_id
        THEN [st[k] EXCEPT !.revoked = TRUE] ELSE st[k]]

\* MemoryBackend.purge: the store after the hard delete
BackendPurge(st, session_id) ==
    [k \in (DOMAIN st) \ list_tokens_for_session(st, session_id) |-> st[k]]

\* ---------------------------------------------------------- alert engine
CRITICAL == "CRITICAL"

\* an alert rule that looks at the alert level only, not at the family
is_critical_LevelOnly(family, alert_level) ==
    /\ alerts_enabled
    /\ alert_level = CRITICAL

\* AlertEngine.check: TRUE iff an alert fires for the item
is_critical(family, alert_level) ==
    /\ alerts_enabled
    /\ (alert_level = CRITICAL \/ family \in critical_families)

\* the alert dict built by AlertEngine.check
MakeAlert(t, data_type, family, token, session_id) ==
    [ timestamp      |-> t,
      type           |-> "SECURITY_ALERT",
      severity       |-> CRITICAL,
      data_type      |-> data_type,
      family         |-> family,
      token          |-> Slice(token, 0, 16) \o <<".", ".", ".">>,
      session_id     |-> Slice(session_id, 0, 12) \o <<".", ".", ".">>,
      recommendation |-> recommend_rotation /\ data_type \in _ROTATION_TYPES ]

\* AlertEngine.check: the list of fired alerts afterwards
AlertCheck(fired, t, data_type, family, alert_level, token, session_id) ==
    IF is_critical(family, alert_level)
    THEN Append(fired, MakeAlert(t, data_type, family, token, session_id))
    ELSE fired

\* ----------------------------------------------------------------- vault
\* The vault is the record [store, entries, alerts, expiry_mins]:
\* MemoryBackend._store, AuditLog._entries, AlertEngine._fired_alerts and
\* Vault._expiry_mins.

\* an expiry that is set whatever the configured lifetime
ExpiresAt_Always(v, t) == <<t + v.expiry_mins>>

\* Vault.store: the entry's expires_at, <<>> for None
ExpiresAt(v, t) ==
    IF v.expiry_mins > 0 THEN <<t + v.expiry_mins>> ELSE <<>>

\* Vault.store at clock t, with the token's random hex given.  Result:
\* the vault afterwards, the exception raised ("none" if it returned) and
\* the token returned.
VaultStore(v, t, real_value, data_type, family, alert_level, session_id, rand_hex) ==
    LET token == generate_token(data_type, rand_hex)
        entry == [ encrypted_value |-> encrypt_value(real_value, session_id),
                   session_id      |-> session_id,
                   data_type       |-> data_type,
                   family          |-> family,
                   alert_level     |-> alert_level,
                   created_at      |-> t,
                   expires_at      |-> ExpiresAt(v, t),
                   revoked         |-> FALSE ]
        b == BackendStore(v.store, token, entry)
    IN IF b.raised
       THEN [v |-> v, raised |-> "ValueError", token |-> <<>>]
       ELSE [v |-> [ store   |-> b.store,
                     entries |-> record(v.entries, t, "store", token, session_id,
                                        OWNER, "success", <<data_type>>,
                                        <<family>>, <<>>),
                     alerts  |-> AlertCheck(v.alerts, t, data_type, family,
                                            alert_level, token, session_id),
                     expiry_mins |-> v.expiry_mins ],
             raised |-> "none",
             token  |-> token]

\* a retrieve that tests expiry before revocation
RetrieveResult_ExpiryFirst(st, t, token, session_id, caller) ==
    IF token \notin DOMAIN st THEN "not_found"
    ELSE IF ~AccessControlCheck(caller, session_id, st[token].session_id)
         THEN "denied"
    ELSE IF st[token].expires_at # <<>> /\ t > st[token].expires_at[1]
         THEN "expired"
    ELSE IF st[token].revoked THEN "revoked"
    ELSE IF decrypt_value(st[token].encrypted_value, st[token].session_id) = <<>>
         THEN "decrypt_failed"
    ELSE "success"

\* the audit result Vault.retrieve records for the call
RetrieveResult(st, t, token, session_id, caller) ==
    IF token \notin DOMAIN st THEN "not_found"
    ELSE IF ~AccessControlCheck(caller, session_id, st[token].session_id)
         THEN "denied"
    ELSE IF st[token].revoked THEN "revoked"
    ELSE IF st[token].expires_at # <<>> /\ t > st[token].expires_at[1]
         THEN "expired"
    ELSE IF decrypt_value(st[token].encrypted_value, st[token].session_id) = <<>>
         THEN "decrypt_failed"
    ELSE "success"

\* Vault.retrieve at clock t.  Result: the audit list afterwards, the
\* exception raised and the value returned (<<>> when it raised).
VaultRetrieve(v, t, token, session_id, caller) ==
    LET res == RetrieveResult(v.store, t, token, session_id, caller)
    IN IF res = "success"
       THEN [ entries |-> record(v.entries, t, "retrieve", token, session_id,
                                 caller, "success",
                                 <<v.store[token].data_type>>, <<>>, <<>>),
              raised  |-> "none",
              result  |-> res,
              value   |-> decrypt_value(v.store[token].encrypted_value,
                                        v.store[token].session_id) ]
       ELSE IF res = "decrypt_failed"
       THEN [ entries |-> v.entries, raised |-> "InvalidTag",
              result  |-> res, value |-> <<>> ]
       ELSE [ entries |-> record(v.entries, t, "retrieve", token, session_id,
                                 caller, res, <<>>, <<>>, <<>>),
              raised  |-> IF res = "expired" THEN "TokenExpiredError"
                          ELSE "VaultAccessError",
              result  |-> res,
              value   |-> <<>> ]

\* a revoke that writes no audit record
VaultRevoke_Unlogged(v, t, session_id) ==
    LET tokens == list_tokens_for_session(v.store, session_id)
    IN [ v |-> [ store   |-> BackendRevokeAll(v.store, tokens),
                 entries |-> v.entries,
                 alerts  |-> v.alerts,
                 expiry_mins |-> v.expiry_mins ],
         count |-> Cardinality(tokens) ]

\* Vault.revoke: the vault afterwards and the count returned
VaultRevoke(v, t, session_id) ==
    LET tokens == list_tokens_for_session(v.store, session_id)
    IN [ v |-> [ store   |-> BackendRevokeAll(v.store, tokens),
                 entries |-> record(v.entries, t, "revoke", <<>>, session_id,
                                    OWNER, "success", <<>>, <<>>,
                                    <<Cardinality(tokens)>>),
                 alerts  |-> v.alerts,
                 expiry_mins |-> v.expiry_mins ],
         count |-> Cardinality(tokens) ]

\* a purge that also erases the audit records of the session
VaultPurge_ErasesAudit(v, t, session_id) ==
    LET count == Cardinality(list_tokens_for_session(v.store, session_id))
        kept  == SelectSeq(v.entries,
                           LAMBDA e : e.session_id # _mask_session(session_id))
    IN [ v |-> [ store   |-> BackendPurge(v.store, session_id),
                 entries |-> record(kept, t, "purge", <<>>, session_id,
                                    OWNER, "success", <<>>, <<>>, <<count>>),
                 alerts  |-> v.alerts,
                 expiry_mins |-> v.expiry_mins ],
         count |-> count ]

\* Vault.purge: the vault afterwards and the count returned
VaultPurge(v, t, session_id) ==
    LET count == Cardinality(list_tokens_for_session(v.store, session_id))
    IN [ v |-> [ store   |-> BackendPurge(v.store, session_id),
                 entries |-> record(v.entries, t, "purge", <<>>, session_id,
                                    OWNER, "success", <<>>, <<>>, <<count>>),
                 alerts  |-> v.alerts,
                 expiry_mins |-> v.expiry_mins ],
         count |-> count ]

\* -------------------------------------------------------------- resolver
\* Python's reversed(list)
Reverse(s) == [i \in 1..Len(s) |-> s[Len(s) + 1 - i]]

\* a lookup that, when the vault refuses and strict_session is off, reads
\* the entry under the entry's own session id
_lookup_Unchecked(v, t, token_str, session_id) ==
    LET r == VaultRetrieve(v, t, token_str, session_id, RESOLVER)
    IN IF r.raised = "none" \/ _strict_session THEN r
       ELSE IF token_str \in DOMAIN v.store
            THEN [r EXCEPT !.raised = "none",
                           !.value = <<v.store[token_str].encrypted_value.sealed>>]
            ELSE [r EXCEPT !.raised = "none"]

\* TokenResolver._lookup: the audit list afterwards, the exception that
\* leaves _lookup ("none" if it returns) and the value (<<>> for None)
_lookup(v, t, token_str, session_id) ==
    LET r == VaultRetrieve(v, t, token_str, session_id, RESOLVER)
    IN IF r.raised = "none" THEN r
       ELSE IF r.raised \in {"VaultAccessError", "TokenExpiredError"}
            THEN [r EXCEPT !.raised = IF _strict_session THEN r.raised ELSE "none"]
       ELSE [r EXCEPT !.raised = IF ~_leave_unresolved THEN "VaultAccessError"
                                 ELSE "none"]

\* the loop of TokenResolver._resolve_text over the reversed matches, from
\* the k-th one on
RECURSIVE ResolveLoop(_, _, _, _, _, _, _)
ResolveLoop(v, t, toks, k, processed, result, session_id) ==
    IF k > Len(toks)
    THEN [entries |-> v.entries, raised |-> "none", text |-> <<result>>]
    ELSE IF toks[k] \in processed
    THEN ResolveLoop(v, t, toks, k + 1, processed, result, session_id)
    ELSE LET r  == _lookup(v, t, toks[k], session_id)
             v2 == [v EXCEPT !.entries = r.entries]
         IN IF r.raised # "none"
            THEN [entries |-> r.entries, raised |-> r.raised, text |-> <<>>]
            ELSE ResolveLoop(v2, t, toks, k + 1, processed \cup {toks[k]},
                             IF r.value = <<>> THEN result
                             ELSE Replace(result, toks[k], r.value[1]),
                             session_id)

\* TokenResolver._resolve_text: the audit list afterwards, the exception
\* raised and the text returned (<<>> when it raised)
_resolve_text(v, t, text, session_id) ==
    ResolveLoop(v, t, Reverse(find_tokens(text)), 1, {}, text, session_id)

\* ------------------------------------------------------------ validators
\* the digits of a string as integers: int(d) for the characters that
\* regex.sub(r"\D", "", number) keeps
DigitsOf(number) ==
    LET kept == SelectSeq(number, LAMBDA c : c \in DigitChars)
        order == <<"0","1","2","3","4","5","6","7","8","9">>
    IN [i \in 1..Len(kept) |-> (CHOOSE d \in 1..10 : order[d] = kept[i]) - 1]

\* pii._VERHOEFF_D, the multiplication table of the dihedral group D5
_VERHOEFF_D ==
    << <<0,1,2,3,4,5,6,7,8,9>>, <<1,2,3,4,0,6,7,8,9,5>>,
       <<2,3,4,0,1,7,8,9,5,6>>, <<3,4,0,1,2,8,9,5,6,7>>,
       <<4,0,1,2,3,9,5,6,7,8>>, <<5,9,8,7,6,0,4,3,2,1>>,
       <<6,5,9,8,7,1,0,4,3,2>>, <<7,6,5,9,8,2,1,0,4,3>>,
       <<8,7,6,5,9,3,2,1,0,4>>, <<9,8,7,6,5,4,3,2,1,0>> >>

\* pii._VERHOEFF_P, the permutation table
_VERHOEFF_P ==
    << <<0,1,2,3,4,5,6,7,8,9>>, <<1,5,7,6,2,8,3,0,9,4>>,
       <<5,8,0,3,7,9,6,1,4,2>>, <<8,9,1,6,0,4,3,5,2,7>>,
       <<9,4,5,3,1,2,6,8,7,0>>, <<4,2,8,6,5,7,3,9,0,1>>,
       <<2,7,9,3,8,0,6,4,1,5>>, <<7,0,4,6,9,1,3,2,5,8>> >>

\* the loop of verhoeff_validate over reversed(digits), from index i
\* (0-based) on, with the running value c
RECURSIVE VerhoeffLoop(_, _, _)
VerhoeffLoop(reversed_digits, i, c) ==
    IF i >= Len(reversed_digits) THEN c
    ELSE LET p == _VERHOEFF_P[(i % 8) + 1][reversed_digits[i + 1] + 1]
         IN VerhoeffLoop(reversed_digits, i + 1, _VERHOEFF_D[c + 1][p + 1])

\* pii.verhoeff_validate (validate_aadhaar is this function)
verhoeff_validate(number) ==
    LET digits == DigitsOf(number)
    IN /\ Len(digits) = 12
       /\ VerhoeffLoop([i \in 1..Len(digits) |-> digits[Len(digits) + 1 - i]],
                       0, 0) = 0

\* the loop of luhn_validate over digits[::-1], from index i (0-based) on
RECURSIVE LuhnLoop(_, _)
LuhnLoop(reverse_digits, i) ==
    IF i >= Len(reverse_digits) THEN 0
    ELSE LET d  == reverse_digits[i + 1]
             d2 == IF i % 2 = 1 THEN (IF d * 2 > 9 THEN d * 2 - 9 ELSE d * 2)
                   ELSE d
         IN d2 + LuhnLoop(reverse_digits, i + 1)

\* financial.luhn_validate
luhn_validate(number) ==
    LET digits == DigitsOf(number)
    IN /\ Len(digits) >= 13
       /\ Len(digits) <= 19
       /\ LuhnLoop([i \in 1..Len(digits) |-> digits[Len(digits) + 1 - i]], 0)
             % 10 = 0

\* --------------------------------------------------------------- scanner
\* a ScanResult found at text[start:end]; confidence in hundredths
ScanResult(text, start, end, type, family, alert_level, confidence, strategy) ==
    [ value       |-> Slice(text, start, end),
      type        |-> type,
      family      |-> family,
      alert_level |-> alert_level,
      position    |-> <<start, end>>,
      confidence  |-> confidence,
      strategy    |-> strategy ]

\* _deduplicate, step 1: the by_value dict as the list of its values in
\* insertion order, after the results from the k-th one on are folded in
RECURSIVE ByValue(_, _, _)
ByValue(results, k, by_value) ==
    IF k > Len(results) THEN by_value
    ELSE LET r    == results[k]
             hits == {j \in 1..Len(by_value) : by_value[j].value = r.value}
         IN IF hits = {}
            THEN ByValue(results, k + 1, Append(by_value, r))
            ELSE LET j == CHOOSE x \in hits : TRUE
                 IN IF r.confidence > by_value[j].confidence
                    THEN ByValue(results, k + 1, [by_value EXCEPT ![j] = r])
                    ELSE ByValue(results, k + 1, by_value)

\* Python's tuple order on pairs of integers
PairLess(a, b) ==
    \/ a[1] < b[1]
    \/ (a[1] = b[1] /\ a[2] < b[2])

\* where a stable sort puts an item of key key into the sorted keys
InsertAt(sorted_keys, key) ==
    LET after == {j \in 1..Len(sorted_keys) : PairLess(key, sorted_keys[j])}
    IN IF after = {} THEN Len(sorted_keys) + 1
       ELSE CHOOSE j \in after : \A x \in after : j <= x

\* s with x inserted so that it becomes element number at
InsertSeq(s, at, x) ==
    SubSeq(s, 1, at - 1) \o <<x>> \o SubSeq(s, at, Len(s))

\* list.sort / sorted on items whose sort keys are keys (pairs of
\* integers): stable and ascending; sorted and sorted_keys accumulate
RECURSIVE StableSort(_, _, _, _, _)
StableSort(items, keys, k, sorted, sorted_keys) ==
    IF k > Len(items) THEN sorted
    ELSE LET at == InsertAt(sorted_keys, keys[k])
         IN StableSort(items, keys, k + 1, InsertSeq(sorted, at, items[k]),
                       InsertSeq(sorted_keys, at, keys[k]))

\* _deduplicate, step 2: drop every result that starts before the end of
\* the last one kept
RECURSIVE DropOverlaps(_, _, _, _)
DropOverlaps(unique, k, kept, last_end) ==
    IF k > Len(unique) THEN kept
    ELSE IF unique[k].position[1] >= last_end
         THEN DropOverlaps(unique, k + 1, Append(kept, unique[k]),
                           unique[k].position[2])
         ELSE DropOverlaps(unique, k + 1, kept, last_end)

_deduplicate(results) ==
    LET unique == ByValue(results, 1, <<>>)
        keys   == [i \in 1..Len(unique) |->
                     <<unique[i].position[1], 0 - unique[i].confidence>>]
    IN DropOverlaps(StableSort(unique, keys, 1, <<>>, <<>>), 1, <<>>, -1)

\* ---- the texts handed to protect(), with the findings the five engines
\* ---- of UniversalScanner._scan_text produce for each of them
Ty_EMAIL == <<"E","M","A","I","L">>

Ty_OTP == <<"O","T","P">>

Ty_SENSITIVE_FIELD_VALUE == <<"S","E","N","S","I","T","I","V","E","_","F","I","E","L","D","_","V","A","L","U","E">>

Ty_STRUCTURED_SECRET == <<"S","T","R","U","C","T","U","R","E","D","_","S","E","C","R","E","T">>

Ty_IFSC_CODE == <<"I","F","S","C","_","C","O","D","E">>

Ty_GENERIC_PASSWORD == <<"G","E","N","E","R","I","C","_","P","A","S","S","W","O","R","D">>

\* 'hi there'
InHi ==
    <<"h","i"," ","t","h","e","r","e">>

\* what the engines report for it, in the order _scan_text collects them
RawHi ==
    <<  >>

\* 'mail a@b.co'
InMail ==
    <<"m","a","i","l"," ","a","@","b",".","c","o">>

\* what the engines report for it, in the order _scan_text collects them
RawMail ==
    << ScanResult(InMail, 5, 11, Ty_EMAIL, "PII", "HIGH", 90, "PATTERN") >>

\* 'otp: 1234'
InOtp ==
    <<"o","t","p",":"," ","1","2","3","4">>

\* what the engines report for it, in the order _scan_text collects them
RawOtp ==
    << ScanResult(InOtp, 5, 9, Ty_OTP, "PII", "CRITICAL", 100, "PATTERN+CONTEXT"),
       ScanResult(InOtp, 5, 9, Ty_SENSITIVE_FIELD_VALUE, "SECRETS", "HIGH", 78, "CONTEXT") >>

\* 'a@b.co a@b.co'
InMailTwice ==
    <<"a","@","b",".","c","o"," ","a","@","b",".","c","o">>

\* what the engines report for it, in the order _scan_text collects them
RawMailTwice ==
    << ScanResult(InMailTwice, 0, 6, Ty_EMAIL, "PII", "HIGH", 90, "PATTERN"),
       ScanResult(InMailTwice, 7, 13, Ty_EMAIL, "PII", "HIGH", 90, "PATTERN") >>

\* 'email: EMAIL'
InEmailWord ==
    <<"e","m","a","i","l",":"," ","E","M","A","I","L">>

\* what the engines report for it, in the order _scan_text collects them
RawEmailWord ==
    << ScanResult(InEmailWord, 7, 12, Ty_EMAIL, "PII", "HIGH", 78, "CONTEXT"),
       ScanResult(InEmailWord, 7, 12, Ty_STRUCTURED_SECRET, "SECRETS", "CRITICAL", 72, "STRUCTURE/YAML") >>

\* 'email: EMAIL EMAIL@b.co'
InEmailWordAddr ==
    <<"e","m","a","i","l",":"," ","E","M","A","I","L"," ","E","M","A","I","L","@","b",".","c","o">>

\* what the engines report for it, in the order _scan_text collects them
RawEmailWordAddr ==
    << ScanResult(InEmailWordAddr, 13, 23, Ty_EMAIL, "PII", "HIGH", 100, "PATTERN+CONTEXT"),
       ScanResult(InEmailWordAddr, 7, 12, Ty_EMAIL, "PII", "HIGH", 78, "CONTEXT"),
       ScanResult(InEmailWordAddr, 7, 23, Ty_STRUCTURED_SECRET, "SECRETS", "CRITICAL", 72, "STRUCTURE/YAML") >>

\* 'email: EMAIL EMAIL@b.co EMAIL@b.co'
InEmailWordAddrTwice ==
    <<"e","m","a","i","l",":"," ","E","M","A","I","L"," ","E","M","A","I","L","@","b",".","c","o"," ","E","M","A","I","L","@","b",".","c","o">>

\* what the engines report for it, in the order _scan_text collects them
RawEmailWordAddrTwice ==
    << ScanResult(InEmailWordAddrTwice, 13, 23, Ty_EMAIL, "PII", "HIGH", 100, "PATTERN+CONTEXT"),
       ScanResult(InEmailWordAddrTwice, 24, 34, Ty_EMAIL, "PII", "HIGH", 100, "PATTERN+CONTEXT"),
       ScanResult(InEmailWordAddrTwice, 7, 12, Ty_EMAIL, "PII", "HIGH", 78, "CONTEXT"),
       ScanResult(InEmailWordAddrTwice, 7, 34, Ty_STRUCTURED_SECRET, "SECRETS", "CRITICAL", 72, "STRUCTURE/YAML") >>

\* '⟨TKN_EMAIL_A1B2C3D4⟩ a@b.co'
InTokenLike ==
    <<"⟨","T","K","N","_","E","M","A","I","L","_","A","1","B","2","C","3","D","4","⟩"," ","a","@","b",".","c","o">>

\* what the engines report for it, in the order _scan_text collects them
RawTokenLike ==
    << ScanResult(InTokenLike, 21, 27, Ty_EMAIL, "PII", "HIGH", 90, "PATTERN") >>

\* 'otp: 1234 x1234@b.co'
InOtpAddr ==
    <<"o","t","p",":"," ","1","2","3","4"," ","x","1","2","3","4","@","b",".","c","o">>

\* what the engines report for it, in the order _scan_text collects them
RawOtpAddr ==
    << ScanResult(InOtpAddr, 5, 9, Ty_OTP, "PII", "CRITICAL", 100, "PATTERN+CONTEXT"),
       ScanResult(InOtpAddr, 10, 20, Ty_EMAIL, "PII", "HIGH", 100, "PATTERN+CONTEXT"),
       ScanResult(InOtpAddr, 5, 9, Ty_SENSITIVE_FIELD_VALUE, "SECRETS", "HIGH", 78, "CONTEXT") >>

\* 'ifsc: HDFC0001234'
InIfsc ==
    <<"i","f","s","c",":"," ","H","D","F","C","0","0","0","1","2","3","4">>

\* what the engines report for it, in the order _scan_text collects them
RawIfsc ==
    << ScanResult(InIfsc, 6, 17, Ty_IFSC_CODE, "FINANCIAL", "HIGH", 97, "PATTERN+CONTEXT"),
       ScanResult(InIfsc, 6, 17, Ty_SENSITIVE_FIELD_VALUE, "FINANCIAL", "CRITICAL", 78, "CONTEXT"),
       ScanResult(InIfsc, 6, 17, Ty_STRUCTURED_SECRET, "SECRETS", "CRITICAL", 72, "STRUCTURE/YAML") >>

\* 'pwd: abcd pwd: xabcdx'
InPwd ==
    <<"p","w","d",":"," ","a","b","c","d"," ","p","w","d",":"," ","x","a","b","c","d","x">>

\* what the engines report for it, in the order _scan_text collects them
RawPwd ==
    << ScanResult(InPwd, 15, 21, Ty_GENERIC_PASSWORD, "SECRETS", "CRITICAL", 97, "PATTERN+CONTEXT"),
       ScanResult(InPwd, 5, 9, Ty_GENERIC_PASSWORD, "SECRETS", "HIGH", 78, "CONTEXT"),
       ScanResult(InPwd, 15, 21, Ty_GENERIC_PASSWORD, "SECRETS", "HIGH", 78, "CONTEXT"),
       ScanResult(InPwd, 5, 21, Ty_STRUCTURED_SECRET, "SECRETS", "CRITICAL", 72, "STRUCTURE/YAML") >>

\* "API_KEY=abcd1234"
InApiKey ==
    <<"A","P","I","_","K","E","Y","=","a","b","c","d","1","2","3","4">>

Ty_UNKNOWN_SECRET == <<"U","N","K","N","O","W","N","_","S","E","C","R","E","T">>

Ty_UNKNOWN_API_KEY == <<"U","N","K","N","O","W","N","_","A","P","I","_","K","E","Y">>

\* what the engines report for it, in the order _scan_text collects them
RawApiKey ==
    << ScanResult(InApiKey, 0, 16, Ty_UNKNOWN_SECRET, "SECRETS", "CRITICAL", 72, "ENTROPY+CONTEXT"),
       ScanResult(InApiKey, 8, 16, Ty_UNKNOWN_API_KEY, "SECRETS", "CRITICAL", 78, "CONTEXT"),
       ScanResult(InApiKey, 8, 16, Ty_STRUCTURED_SECRET, "SECRETS", "CRITICAL", 72, "STRUCTURE/.env") >>

\* 'aadhaar: 1234'
InAadhaarKey ==
    <<"a","a","d","h","a","a","r",":"," ","1","2","3","4">>

Ty_AADHAAR == <<"A","A","D","H","A","A","R">>

\* what the engines report for it, in the order _scan_text collects them
RawAadhaarKey ==
    << ScanResult(InAadhaarKey, 9, 13, Ty_AADHAAR, "PII", "HIGH", 78, "CONTEXT"),
       ScanResult(InAadhaarKey, 9, 13, Ty_STRUCTURED_SECRET, "SECRETS", "CRITICAL", 72, "STRUCTURE/YAML") >>

\* 'aadhaar: 234567890124'
InAadhaarValid ==
    <<"a","a","d","h","a","a","r",":"," ","2","3","4","5","6","7","8","9","0","1","2","4">>

\* what the engines report for it, in the order _scan_text collects them
RawAadhaarValid ==
    << ScanResult(InAadhaarValid, 9, 21, Ty_AADHAAR, "PII", "HIGH", 78, "CONTEXT"),
       ScanResult(InAadhaarValid, 9, 21, Ty_STRUCTURED_SECRET, "SECRETS", "CRITICAL", 72, "STRUCTURE/YAML") >>

\* 'card 4111111111111111'
InCard ==
    <<"c","a","r","d"," ","4","1","1","1","1","1","1","1","1","1","1","1","1","1","1","1">>

Ty_CREDIT_CARD == <<"C","R","E","D","I","T","_","C","A","R","D">>

\* what the engines report for it, in the order _scan_text collects them
RawCard ==
    << ScanResult(InCard, 5, 21, Ty_CREDIT_CARD, "FINANCIAL", "CRITICAL", 85, "PATTERN") >>

\* "['a@b.co']", the str() of the list ['a@b.co']
InMailList ==
    <<"[","'","a","@","b",".","c","o","'","]">>

\* what the engines report for it, in the order _scan_text collects them
RawMailList ==
    << ScanResult(InMailList, 2, 8, Ty_EMAIL, "PII", "HIGH", 90, "PATTERN") >>

all_results(text) ==
    CASE text = InHi -> RawHi
      [] text = InMail -> RawMail
      [] text = InOtp -> RawOtp
      [] text = InMailTwice -> RawMailTwice
      [] text = InEmailWord -> RawEmailWord
      [] text = InEmailWordAddr -> RawEmailWordAddr
      [] text = InEmailWordAddrTwice -> RawEmailWordAddrTwice
      [] text = InTokenLike -> RawTokenLike
      [] text = InOtpAddr -> RawOtpAddr
      [] text = InIfsc -> RawIfsc
      [] text = InPwd -> RawPwd
      [] text = InApiKey -> RawApiKey
      [] text = InAadhaarKey -> RawAadhaarKey
      [] text = InAadhaarValid -> RawAadhaarValid
      [] text = InCard -> RawCard
      [] text = InMailList -> RawMailList
      [] OTHER -> <<>>

\* PrivacyConfig.families when the configuration names none
AllFamilies == {"PII", "SECRETS", "FINANCIAL", "INFRA", "BUSINESS"}

\* the strategies of the engines that test enabled_families at their scan
\* boundary: the pattern engine (also when the context engine has boosted
\* its result), the context engine and the NLP engine.  The entropy engine
\* takes no enabled_families and the structure engine stores it unread.
FilteredStrategies == {"PATTERN", "PATTERN+CONTEXT", "CONTEXT", "NLP", "NLP+CONTEXT"}

\* the results the engines report under a family filter; a filter that is
\* None or empty is falsy and filters nothing
FamilyFilter(results, families) ==
    SelectSeq(results,
              LAMBDA r : \/ families = {}
                         \/ r.strategy \notin FilteredStrategies
                         \/ r.family \in families)

\* UniversalScanner._scan_text: what the engines report, deduplicated
_scan_text(text) == _deduplicate(FamilyFilter(all_results(text), enabled_families))

\* UniversalScanner.scan on a text
scan(text) == _scan_text(text)

\* A mapping is the list of its items in insertion order; an item is the
\* record [field_name, kind, value] where kind tells the isinstance branch
\* the value takes: "str" (value is a string), "dict" (value is a mapping)
\* or "list" (value is a list of strings).

\* str.lower()
lower(s) ==
    [i \in 1..Len(s) |->
        IF s[i] \in Range(UpperLetters)
        THEN LowerLetters[CHOOSE j \in 1..26 : UpperLetters[j] = s[i]]
        ELSE s[i]]

\* repr() of the strings of a list from the k-th one on, joined by ", "
RECURSIVE JoinRepr(_, _)
JoinRepr(items, k) ==
    IF k > Len(items) THEN <<>>
    ELSE <<"'">> \o items[k] \o <<"'">>
           \o (IF k < Len(items) THEN <<",", " ">> ELSE <<>>)
           \o JoinRepr(items, k + 1)

\* str(field_value) for a value that is not a mapping
StrOf(item) ==
    IF item.kind = "str" THEN item.value
    ELSE <<"[">> \o JoinRepr(item.value, 1) \o <<"]">>

\* UniversalScanner._scan_dict: the results of the fields, each scanned as
\* text with positions relative to its own value and annotated with the
\* field name, nested mappings by recursion; then _deduplicate on the lot
RECURSIVE _scan_dict(_), ScanFields(_, _)
ScanFields(data, k) ==
    IF k > Len(data) THEN <<>>
    ELSE IF lower(data[k].field_name) \in _safe_fields
    THEN ScanFields(data, k + 1)
    ELSE IF data[k].kind = "dict"
    THEN _scan_dict(data[k].value) \o ScanFields(data, k + 1)
    ELSE LET field_results == _scan_text(StrOf(data[k]))
         IN [i \in 1..Len(field_results) |->
                [ value       |-> field_results[i].value,
                  type        |-> field_results[i].type,
                  family      |-> field_results[i].family,
                  alert_level |-> field_results[i].alert_level,
                  position    |-> field_results[i].position,
                  confidence  |-> field_results[i].confidence,
                  strategy    |-> field_results[i].strategy,
                  field_name  |-> data[k].field_name ]]
              \o ScanFields(data, k + 1)

_scan_dict(data) == _deduplicate(ScanFields(data, 1))

\* --------------------------------------------------------------- gateway
\* _substitute on a text: the values longest first (stable for equal
\* lengths), each replaced by its token with str.replace.  value_to_token
\* is the dict as the list of its [value, token] items in insertion order.
RECURSIVE SubstituteLoop(_, _, _)
SubstituteLoop(result, items, k) ==
    IF k > Len(items) THEN result
    ELSE SubstituteLoop(Replace(result, items[k].value, items[k].token),
                        items, k + 1)

_substitute(content, value_to_token) ==
    LET keys == [i \in 1..Len(value_to_token) |->
                   <<0 - Len(value_to_token[i].value), 0>>]
    IN SubstituteLoop(content,
                      StableSort(value_to_token, keys, 1, <<>>, <<>>), 1)

\* _substitute on a mapping: the same keys, a string value substituted as
\* a text, a mapping value by recursion, any other value returned as it is
RECURSIVE SubstituteMapping(_, _)
SubstituteMapping(content, value_to_token) ==
    [k \in 1..Len(content) |->
        IF content[k].kind = "str"
        THEN [content[k] EXCEPT !.value = _substitute(@, value_to_token)]
        ELSE IF content[k].kind = "dict"
        THEN [content[k] EXCEPT !.value = SubstituteMapping(@, value_to_token)]
        ELSE content[k]]

\* the token value_to_token holds for a value, <<>> if it holds none
TokenOf(value_to_token, value) ==
    LET hits == {i \in 1..Len(value_to_token) : value_to_token[i].value = value}
    IN IF hits = {} THEN <<>>
       ELSE <<value_to_token[CHOOSE i \in hits : TRUE].token>>

\* the vaulting loop of protect from the k-th scan result on; hexes are the
\* random hex strings of the successive generate_token calls.  Result: the
\* vault afterwards, the exception that left the loop, and value_to_token.
RECURSIVE VaultLoop(_, _, _, _, _, _, _)
VaultLoop(v, t, scan_results, k, value_to_token, session_id, hexes) ==
    IF k > Len(scan_results)
    THEN [v |-> v, raised |-> "none", value_to_token |-> value_to_token]
    ELSE IF TokenOf(value_to_token, scan_results[k].value) # <<>>
    THEN VaultLoop(v, t, scan_results, k + 1, value_to_token, session_id, hexes)
    ELSE LET r  == scan_results[k]
             st == VaultStore(v, t, r.value, r.type, r.family, r.alert_level,
                              session_id, hexes[Len(value_to_token) + 1])
         IN IF st.raised # "none"
            THEN [v |-> st.v, raised |-> st.raised,
                  value_to_token |-> value_to_token]
            ELSE VaultLoop(st.v, t, scan_results, k + 1,
                           Append(value_to_token,
                                  [value |-> r.value, token |-> st.token]),
                           session_id, hexes)

\* the number of Vault.store calls protect makes for the scan results
NumValues(scan_results) ==
    Cardinality({scan_results[i].value : i \in 1..Len(scan_results)})

\* ----------------------------------------------------------------- state
\* the vault of the gateway instance
Vault ==
    [ store |-> _store, entries |-> _entries, alerts |-> _fired_alerts,
      expiry_mins |-> _expiry_mins ]

\* the session ids uuid4 is let to draw: "sess_1a2b3c4d", "sess_5e6f7081"
GenSessions ==
    { <<"s","e","s","s","_","1","a","2","b","3","c","4","d">>,
      <<"s","e","s","s","_","5","e","6","f","7","0","8","1">> }

\* a session id no protect() ever returned: "sess_other"
Outsider == <<"s","e","s","s","_","o","t","h","e","r">>

\* the session ids a caller may present
AnySessions == GenSessions \cup {Outsider}

\* the values secrets.token_hex(4).upper() is let to draw
HexSet == { <<"A","1","B","2","C","3","D","4">>, <<"E","5","F","6","0","7","1","8">> }

\* the texts of the lifecycle specification and of the text specification
LifecycleInputs == {InMail, InOtp}

TextInputs ==
    { InHi, InMail, InOtp, InMailTwice, InEmailWord, InEmailWordAddr,
      InEmailWordAddrTwice, InTokenLike, InOtpAddr, InIfsc, InPwd }

\* Three variables record history and are read by no operation: issued is
\* the list of the ProtectResults handed out so far (with the input and the
\* clock of the call), revoked_sessions the session ids revoke_session has
\* been called with, and audit_sessions[i] the unmasked session id of the
\* call that wrote the audit record _entries[i].

\* audit_sessions after a call with session_id has appended its records
WrittenBy(session_id) ==
    audit_sessions \o [i \in 1..(Len(_entries') - Len(_entries)) |-> session_id]

\* the record of the most recent call on the gateway or the vault: what was
\* passed, what was raised ("none" if it returned) and what was returned
Call(op, content, session_id, caller, raised, ret, count, alerts, scan_results, value_to_token) ==
    [ op |-> op, content |-> content, session_id |-> session_id,
      caller |-> caller, raised |-> raised, ret |-> ret, count |-> count,
      alerts |-> alerts, scan_results |-> scan_results,
      value_to_token |-> value_to_token ]

Init ==
    /\ _store = <<>>
    /\ _entries = <<>>
    /\ _fired_alerts = <<>>
    /\ now = 0
    /\ last = Call("init", <<>>, <<>>, "", "none", <<>>, <<>>, <<>>, <<>>, <<>>)
    /\ issued = <<>>
    /\ revoked_sessions = {}
    /\ audit_sessions = <<>>
    /\ _expiry_mins = token_expiry_minutes
    /\ enabled_families = AllFamilies
    /\ _strict_session = strict_session
    /\ _leave_unresolved = leave_unresolved
    /\ n_protect = 0
    /\ n_admin = 0
    /\ n_read = 0
    /\ n_tick = 0

\* PrivacyDataSecurity.protect on a text, with the drawn session id and the
\* drawn token hex strings
protect(user_input, session_id, hexes) ==
    LET scan_results == scan(user_input)
        loop == VaultLoop(Vault, now, scan_results, 1, <<>>, session_id, hexes)
    IN /\ n_protect' = n_protect + 1
       /\ UNCHANGED <<_strict_session, _leave_unresolved, enabled_families, _expiry_mins, now, revoked_sessions, n_admin, n_read, n_tick>>
       /\ IF scan_results = <<>>
          THEN /\ UNCHANGED <<_store, _entries, _fired_alerts>>
               /\ last' = Call("protect", user_input, session_id, "", "none",
                               <<user_input>>, <<0>>, <<>>, <<>>, <<>>)
          ELSE /\ _store' = loop.v.store
               /\ _entries' = loop.v.entries
               /\ _fired_alerts' = loop.v.alerts
               /\ last' = IF loop.raised # "none"
                          THEN Call("protect", user_input, session_id, "",
                                    loop.raised, <<>>, <<>>, <<>>, scan_results,
                                    loop.value_to_token)
                          ELSE Call("protect", user_input, session_id, "", "none",
                                    <<_substitute(user_input, loop.value_to_token)>>,
                                    <<Len(loop.value_to_token)>>,
                                    loop.v.alerts, scan_results,
                                    loop.value_to_token)
       /\ audit_sessions' = WrittenBy(session_id)
       /\ issued' = IF last'.raised = "none"
                    THEN Append(issued, [ user_input     |-> user_input,
                                          safe_content   |-> last'.ret[1],
                                          session_id     |-> session_id,
                                          value_to_token |-> last'.value_to_token,
                                          at             |-> now ])
                    ELSE issued

Protect ==
    /\ n_protect < MaxProtects
    /\ \E user_input \in LifecycleInputs, session_id \in GenSessions :
         \E hexes \in [1..NumValues(scan(user_input)) -> HexSet] :
            protect(user_input, session_id, hexes)

\* PrivacyDataSecurity.protect on a mapping: the scan is _scan_dict and the
\* substitution goes through the mapping
protect_mapping(user_input, session_id, hexes) ==
    LET scan_results == _scan_dict(user_input)
        loop == VaultLoop(Vault, now, scan_results, 1, <<>>, session_id, hexes)
    IN /\ n_protect' = n_protect + 1
       /\ UNCHANGED <<_strict_session, _leave_unresolved, enabled_families, _expiry_mins, now, revoked_sessions, n_admin, n_read, n_tick>>
       /\ IF scan_results = <<>>
          THEN /\ UNCHANGED <<_store, _entries, _fired_alerts>>
               /\ last' = Call("protect", user_input, session_id, "", "none",
                               <<user_input>>, <<0>>, <<>>, <<>>, <<>>)
          ELSE /\ _store' = loop.v.store
               /\ _entries' = loop.v.entries
               /\ _fired_alerts' = loop.v.alerts
               /\ last' = IF loop.raised # "none"
                          THEN Call("protect", user_input, session_id, "",
                                    loop.raised, <<>>, <<>>, <<>>, scan_results,
                                    loop.value_to_token)
                          ELSE Call("protect", user_input, session_id, "", "none",
                                    <<SubstituteMapping(user_input,
                                                        loop.value_to_token)>>,
                                    <<Len(loop.value_to_token)>>,
                                    loop.v.alerts, scan_results,
                                    loop.value_to_token)
       /\ audit_sessions' = WrittenBy(session_id)
       /\ issued' = IF last'.raised = "none"
                    THEN Append(issued, [ user_input     |-> user_input,
                                          safe_content   |-> last'.ret[1],
                                          session_id     |-> session_id,
                                          value_to_token |-> last'.value_to_token,
                                          at             |-> now ])
                    ELSE issued

\* a well-formed token no store ever returned: "⟨TKN_EMAIL_0BADF00D⟩"
GhostToken == generate_token(Ty_EMAIL, <<"0","B","A","D","F","0","0","D">>)

\* the tokens a caller can present: those handed out by protect() so far
\* and the made-up one
KnownTokens ==
    UNION {{issued[i].value_to_token[j].token :
               j \in 1..Len(issued[i].value_to_token)} : i \in 1..Len(issued)}
      \cup {GhostToken}

\* the contents handed to restore(): every safe_content issued so far, the
\* made-up token, or two different tokens separated by a blank
Contents ==
    {issued[i].safe_content : i \in 1..Len(issued)}
      \cup {GhostToken}
      \cup (IF MaxContentTokens >= 2
            THEN {p[1] \o <<" ">> \o p[2] :
                     p \in {q \in KnownTokens \X KnownTokens : q[1] # q[2]}}
            ELSE {})

\* PrivacyDataSecurity.restore on a text
restore(ai_response, session_id) ==
    LET r == _resolve_text(Vault, now, ai_response, session_id)
    IN /\ _entries' = r.entries
       /\ last' = Call("restore", ai_response, session_id, RESOLVER, r.raised,
                       r.text, <<>>, <<>>, <<>>, <<>>)
       /\ audit_sessions' = WrittenBy(session_id)
       /\ n_read' = n_read + 1
       /\ UNCHANGED <<_strict_session, _leave_unresolved, enabled_families, _expiry_mins, _store, _fired_alerts, now, issued, revoked_sessions, n_protect, n_admin, n_tick>>

Restore ==
    /\ n_read < MaxReadOps
    /\ \E ai_response \in Contents, session_id \in AnySessions :
         restore(ai_response, session_id)

\* the callers that present themselves to Vault.retrieve
Callers == {OWNER, "AI"}

\* a retrieve that reaps: it deletes the entry it finds expired
retrieve_Reaping(token, session_id, caller) ==
    LET r == VaultRetrieve(Vault, now, token, session_id, caller)
    IN /\ _entries' = r.entries
       /\ _store' = IF r.result = "expired"
                    THEN [k \in (DOMAIN _store) \ {token} |-> _store[k]]
                    ELSE _store
       /\ last' = Call("retrieve", token, session_id, caller, r.raised,
                       r.value, <<>>, <<>>, <<>>, <<>>)
       /\ audit_sessions' = WrittenBy(session_id)
       /\ n_read' = n_read + 1
       /\ UNCHANGED <<_strict_session, _leave_unresolved, enabled_families, _expiry_mins, _fired_alerts, now, issued, revoked_sessions, n_protect, n_admin, n_tick>>

\* Vault.retrieve called directly
retrieve(token, session_id, caller) ==
    LET r == VaultRetrieve(Vault, now, token, session_id, caller)
    IN /\ _entries' = r.entries
       /\ last' = Call("retrieve", token, session_id, caller, r.raised,
                       r.value, <<>>, <<>>, <<>>, <<>>)
       /\ audit_sessions' = WrittenBy(session_id)
       /\ n_read' = n_read + 1
       /\ UNCHANGED <<_strict_session, _leave_unresolved, enabled_families, _expiry_mins, _store, _fired_alerts, now, issued, revoked_sessions, n_protect, n_admin, n_tick>>

Retrieve ==
    /\ n_read < MaxReadOps
    /\ \E token \in KnownTokens, session_id \in AnySessions, caller \in Callers :
         retrieve(token, session_id, caller)

\* the AuditEntry list PrivacyDataSecurity.audit builds from the raw entries
AuditEntries(raw_entries, session_id) ==
    [i \in 1..Len(raw_entries) |->
        [ type        |-> IF raw_entries[i].data_type = <<>>
                          THEN <<"U","N","K","N","O","W","N">>
                          ELSE raw_entries[i].data_type[1],
          token       |-> raw_entries[i].token,
          timestamp   |-> raw_entries[i].timestamp,
          access_log  |-> <<raw_entries[i]>>,
          family      |-> IF raw_entries[i].family = <<>> THEN ""
                          ELSE raw_entries[i].family[1],
          alert_level |-> "",
          session_id  |-> session_id ]]

\* PrivacyDataSecurity.audit
audit(session_id) ==
    /\ last' = Call("audit", <<>>, session_id, "", "none",
                    <<AuditEntries(get_entries(_entries, session_id), session_id)>>,
                    <<>>, <<>>, <<>>, <<>>)
    /\ n_read' = n_read + 1
    /\ UNCHANGED <<_strict_session, _leave_unresolved, enabled_families, _expiry_mins, _store, _entries, _fired_alerts, now, issued, revoked_sessions, audit_sessions, n_protect, n_admin, n_tick>>

\* a session id no call ever used that shares its first 12 characters with
\* a drawn one: "sess_1a2b3c4e"
PrefixTwin == <<"s","e","s","s","_","1","a","2","b","3","c","4","e">>

\* the session ids handed to audit(): the real ones, the stranger, the
\* twin and the empty string
AuditSessions == AnySessions \cup {PrefixTwin, <<>>}

Audit ==
    /\ n_read < MaxReadOps
    /\ \E session_id \in AuditSessions : audit(session_id)

\* PrivacyDataSecurity.revoke_session
revoke_session(session_id) ==
    LET r == VaultRevoke(Vault, now, session_id)
    IN /\ _store' = r.v.store
       /\ _entries' = r.v.entries
       /\ last' = Call("revoke_session", <<>>, session_id, OWNER, "none",
                       <<r.count>>, <<r.count>>, <<>>, <<>>, <<>>)
       /\ revoked_sessions' = revoked_sessions \cup {session_id}
       /\ audit_sessions' = WrittenBy(session_id)
       /\ n_admin' = n_admin + 1
       /\ UNCHANGED <<_strict_session, _leave_unresolved, enabled_families, _expiry_mins, _fired_alerts, now, issued, n_protect, n_read, n_tick>>

RevokeSession ==
    /\ n_admin < MaxAdminOps
    /\ \E session_id \in GenSessions : revoke_session(session_id)

\* PrivacyDataSecurity.purge_session
purge_session(session_id) ==
    LET r == VaultPurge(Vault, now, session_id)
    IN /\ _store' = r.v.store
       /\ _entries' = r.v.entries
       /\ last' = Call("purge_session", <<>>, session_id, OWNER, "none",
                       <<r.count>>, <<r.count>>, <<>>, <<>>, <<>>)
       /\ audit_sessions' = WrittenBy(session_id)
       /\ n_admin' = n_admin + 1
       /\ UNCHANGED <<_strict_session, _leave_unresolved, enabled_families, _expiry_mins, _fired_alerts, now, issued, revoked_sessions, n_protect, n_read, n_tick>>

PurgeSession ==
    /\ n_admin < MaxAdminOps
    /\ \E session_id \in GenSessions : purge_session(session_id)

\* minutes the wall clock moves in one step: past token_expiry_minutes
TickStep == 61

\* time passes between two calls
Tick ==
    /\ n_tick < MaxTicks
    /\ now' = now + TickStep
    /\ n_tick' = n_tick + 1
    /\ UNCHANGED <<_strict_session, _leave_unresolved, enabled_families, _expiry_mins, _store, _entries, _fired_alerts, last, issued, revoked_sessions, audit_sessions, n_protect, n_admin, n_read>>

Next ==
    \/ Protect
    \/ Restore
    \/ Retrieve
    \/ Audit
    \/ RevokeSession
    \/ PurgeSession
    \/ Tick

Spec == Init /\ [][Next]_vars

\* ---- the text specification: protect() on every text of TextInputs and
\* ---- restore() of what protect() returned
ProtectText ==
    /\ n_protect < MaxProtects
    /\ \E user_input \in TextInputs, session_id \in GenSessions :
         \E hexes \in [1..NumValues(scan(user_input)) -> HexSet] :
            protect(user_input, session_id, hexes)

RestoreIssued ==
    /\ n_read < MaxReadOps
    /\ \E i \in 1..Len(issued), session_id \in AnySessions :
         restore(issued[i].safe_content, session_id)

NextText ==
    \/ ProtectText
    \/ RestoreIssued

SpecText == Init /\ [][NextText]_vars

\* ---- the vault specification: the vault operations under every caller of
\* ---- the taxonomy, with and without token expiry
\* the values of vault.token_expiry_minutes: no expiry, and the default
ExpiryChoices == {0, token_expiry_minutes}

InitVault ==
    /\ _store = <<>>
    /\ _entries = <<>>
    /\ _fired_alerts = <<>>
    /\ now = 0
    /\ last = Call("init", <<>>, <<>>, "", "none", <<>>, <<>>, <<>>, <<>>, <<>>)
    /\ issued = <<>>
    /\ revoked_sessions = {}
    /\ audit_sessions = <<>>
    /\ _expiry_mins \in ExpiryChoices
    /\ enabled_families = AllFamilies
    /\ _strict_session = strict_session
    /\ _leave_unresolved = leave_unresolved
    /\ n_protect = 0
    /\ n_admin = 0
    /\ n_read = 0
    /\ n_tick = 0

\* the protect() calls of the vault specification
MaxVaultStores == 1

\* protect() as the one caller of Vault.store
StoreEntries ==
    /\ n_protect < MaxVaultStores
    /\ \E user_input \in LifecycleInputs, session_id \in GenSessions :
         \E hexes \in [1..NumValues(scan(user_input)) -> HexSet] :
            protect(user_input, session_id, hexes)

\* the Caller constants and a string that is none of them
AllCallers == {OWNER, RESOLVER, "AI", "EXTERNAL", "ANONYMOUS", "OTHER", "owner"}

RetrieveAs ==
    /\ n_read < MaxReadOps
    /\ \E token \in KnownTokens, session_id \in AnySessions, caller \in AllCallers :
         retrieve(token, session_id, caller)

\* time passes: to the minute of expiry, or past it
Elapse ==
    /\ n_tick < MaxTicks
    /\ \E d \in {token_expiry_minutes, TickStep} : now' = now + d
    /\ n_tick' = n_tick + 1
    /\ UNCHANGED <<_strict_session, _leave_unresolved, enabled_families, _expiry_mins, _store, _entries, _fired_alerts, last, issued, revoked_sessions, audit_sessions, n_protect, n_admin, n_read>>

\* decrypt_value called directly on the ciphertext of a stored entry, with
\* the key derived from any session id
DecryptStored ==
    /\ n_read < MaxReadOps
    /\ \E token \in DOMAIN _store, session_id \in AnySessions :
         LET r == decrypt_value(_store[token].encrypted_value, session_id)
         IN last' = Call("decrypt_value", token, session_id, "",
                         IF r = <<>> THEN "InvalidTag" ELSE "none",
                         r, <<>>, <<>>, <<>>, <<>>)
    /\ n_read' = n_read + 1
    /\ UNCHANGED <<_strict_session, _leave_unresolved, enabled_families, _expiry_mins, _store, _entries, _fired_alerts, now, issued, revoked_sessions, audit_sessions, n_protect, n_admin, n_tick>>

NextVault ==
    \/ StoreEntries
    \/ RetrieveAs
    \/ DecryptStored
    \/ RevokeSession
    \/ PurgeSession
    \/ Elapse

SpecVault == InitVault /\ [][NextVault]_vars

\* ---- the read specification: tokens resolved again and again, before and
\* ---- after revoke, purge and expiry
\* number of retrieve() / restore() calls in one behaviour of it
MaxRereads == 2

RetrieveAgain ==
    /\ n_read < MaxRereads
    /\ \E token \in KnownTokens, session_id \in AnySessions, caller \in Callers :
         retrieve(token, session_id, caller)

RestoreAgain ==
    /\ n_read < MaxRereads
    /\ \E i \in 1..Len(issued), session_id \in AnySessions :
         restore(issued[i].safe_content, session_id)

NextReads ==
    \/ StoreEntries
    \/ RetrieveAgain
    \/ RestoreAgain
    \/ RevokeSession
    \/ PurgeSession
    \/ Tick

SpecReads == Init /\ [][NextReads]_vars

\* ---- the resolver specification: restore() under every combination of
\* ---- resolver.strict_session and resolver.leave_unresolved_tokens
InitResolver ==
    /\ _store = <<>>
    /\ _entries = <<>>
    /\ _fired_alerts = <<>>
    /\ now = 0
    /\ last = Call("init", <<>>, <<>>, "", "none", <<>>, <<>>, <<>>, <<>>, <<>>)
    /\ issued = <<>>
    /\ revoked_sessions = {}
    /\ audit_sessions = <<>>
    /\ _expiry_mins = token_expiry_minutes
    /\ enabled_families = AllFamilies
    /\ _strict_session \in BOOLEAN
    /\ _leave_unresolved \in BOOLEAN
    /\ n_protect = 0
    /\ n_admin = 0
    /\ n_read = 0
    /\ n_tick = 0

NextResolver ==
    \/ Protect
    \/ Restore
    \/ RevokeSession

SpecResolver == InitResolver /\ [][NextResolver]_vars

\* ---- the mapping specification: protect() on dict inputs
\* the dicts handed to protect(), in a list: {'a': X, 'b': Y} for the texts
\* X and Y, {'to': ['a@b.co']}, {'to': ['a@b.co'], 'cc': 'a@b.co'}, and
\* {'m': {'x': 'mail a@b.co'}, 'b': Y}
MappingInputs ==
    LET Item(field_name, kind, value) ==
            [field_name |-> field_name, kind |-> kind, value |-> value]
        texts == <<InHi, InMail, InOtp>>
        addr  == Slice(InMail, 5, 11)
    IN [n \in 1..9 |->
            <<Item(<<"a">>, "str", texts[((n - 1) \div 3) + 1]),
              Item(<<"b">>, "str", texts[((n - 1) % 3) + 1])>>]
       \o << <<Item(<<"t","o">>, "list", <<addr>>)>>,
              <<Item(<<"t","o">>, "list", <<addr>>),
                Item(<<"c","c">>, "str", addr)>> >>
       \o [n \in 1..3 |->
            <<Item(<<"m">>, "dict", <<Item(<<"x">>, "str", InMail)>>),
              Item(<<"b">>, "str", texts[n])>>]

ProtectMapping ==
    /\ n_protect < MaxProtects
    /\ \E n \in 1..Len(MappingInputs), session_id \in GenSessions :
         \E hexes \in [1..NumValues(_scan_dict(MappingInputs[n])) -> HexSet] :
            protect_mapping(MappingInputs[n], session_id, hexes)

NextMapping ==
    \/ ProtectMapping

SpecMapping == Init /\ [][NextMapping]_vars

\* ---- the scanner specification: protect() under a configured family filter
\* the values of scanner.families: none, PII only, PII and FINANCIAL, all
FamilyChoices == {{}, {"PII"}, {"PII", "FINANCIAL"}, AllFamilies}

InitFamilies ==
    /\ _store = <<>>
    /\ _entries = <<>>
    /\ _fired_alerts = <<>>
    /\ now = 0
    /\ last = Call("init", <<>>, <<>>, "", "none", <<>>, <<>>, <<>>, <<>>, <<>>)
    /\ issued = <<>>
    /\ revoked_sessions = {}
    /\ audit_sessions = <<>>
    /\ _expiry_mins = token_expiry_minutes
    /\ enabled_families \in FamilyChoices
    /\ _strict_session = strict_session
    /\ _leave_unresolved = leave_unresolved
    /\ n_protect = 0
    /\ n_admin = 0
    /\ n_read = 0
    /\ n_tick = 0

\* the texts of the scanner specification
FamilyInputs ==
    TextInputs \cup {InApiKey, InAadhaarKey, InAadhaarValid, InCard}

ProtectFiltered ==
    /\ n_protect < MaxVaultStores
    /\ \E user_input \in FamilyInputs, session_id \in GenSessions :
         \E hexes \in [1..NumValues(scan(user_input)) -> HexSet] :
            protect(user_input, session_id, hexes)

NextFamilies ==
    \/ ProtectFiltered

SpecFamilies == InitFamilies /\ [][NextFamilies]_vars

\* ---- the token specification: generate_token on arbitrary type names and
\* ---- the resolver's find_tokens on a text that holds the result
\* the longest type name drawn from TypeAlphabet
MaxTypeLen == 3

\* a lower-case letter, an upper-case letter, a digit, the underscore and a
\* character outside [A-Za-z0-9_]
TypeAlphabet == {"a", "Z", "1", "_", "-"}

\* a type name longer than the 20 characters generate_token keeps
LongType ==
    <<"A","B","C","D","E","F","G","H","I","J","K","L","M","N","O","P","Q","R","S","T","U","V","W","X","Y">>

\* the type names handed to generate_token: every string over TypeAlphabet
\* up to MaxTypeLen (the empty one included), the long one and a scanner type
TypeNames ==
    UNION {[1..n -> TypeAlphabet] : n \in 0..MaxTypeLen} \cup {LongType, Ty_OTP}

GenerateToken ==
    /\ \E type_name \in TypeNames, rand_hex \in HexSet :
         last' = Call("generate_token", type_name, <<>>, "", "none",
                      <<generate_token(type_name, rand_hex)>>,
                      <<>>, <<>>, <<>>, <<>>)
    /\ UNCHANGED <<_store, _entries, _fired_alerts, now, issued, revoked_sessions, audit_sessions, _expiry_mins, enabled_families, _strict_session, _leave_unresolved, n_protect, n_admin, n_read, n_tick>>

\* find_tokens on "see <token> ok" for the token generated last
FindGenerated ==
    /\ last.op = "generate_token"
    /\ last' = Call("find_tokens", last.ret[1], <<>>, "", "none",
                    find_tokens(<<"s","e","e"," ">> \o last.ret[1]
                                   \o <<" ","o","k">>),
                    <<>>, <<>>, <<>>, <<>>)
    /\ UNCHANGED <<_store, _entries, _fired_alerts, now, issued, revoked_sessions, audit_sessions, _expiry_mins, enabled_families, _strict_session, _leave_unresolved, n_protect, n_admin, n_read, n_tick>>

NextToken ==
    \/ GenerateToken
    \/ FindGenerated

SpecToken == Init /\ [][NextToken]_vars

\* ================================================================ claims
\* a is a prefix of b
IsPrefix(a, b) == Len(a) <= Len(b) /\ SubSeq(b, 1, Len(a)) = a

\* the step is a call of the operation op
CallStep(op) ==
    /\ last'.op = op
    /\ n_protect' + n_admin' + n_read' = n_protect + n_admin + n_read + 1

\* the audit records the step appends
Appended == SubSeq(_entries', Len(_entries) + 1, Len(_entries'))

\* the exceptions that are a VaultAccessError (TokenExpiredError derives from it)
VaultErrors == {"VaultAccessError", "TokenExpiredError"}

\* token is live for session_id: stored under it, not revoked, not expired
Active(token, session_id) ==
    /\ token \in DOMAIN _store
    /\ _store[token].session_id = session_id
    /\ ~_store[token].revoked
    /\ ~(_store[token].expires_at # <<>> /\ now > _store[token].expires_at[1])

\* the tokens of content held in the vault by a session other than session_id
ForeignTokens(content, session_id) ==
    {t \in Range(find_tokens(content)) :
        t \in DOMAIN _store /\ _store[t].session_id # session_id}

\* the rightmost token of content that is not live for session_id
FirstUnresolvable(content, session_id) ==
    LET toks == find_tokens(content)
        bad  == {i \in 1..Len(toks) : ~Active(toks[i], session_id)}
    IN toks[CHOOSE i \in bad : \A j \in bad : j <= i]

\* token was handed out by a protect() call
WasIssued(token) ==
    \E i \in 1..Len(issued) : \E j \in 1..Len(issued[i].value_to_token) :
        issued[i].value_to_token[j].token = token

\* token was stored and its entry has been deleted since (purge is the only
\* operation that deletes) and not stored again
WasPurged(token) == WasIssued(token) /\ token \notin DOMAIN _store

C2_RevocationMonotone ==
    [][ (CallStep("restore")
         /\ last'.session_id \in revoked_sessions
         /\ \E t \in Range(find_tokens(last'.content)) :
               t \in DOMAIN _store /\ _store[t].session_id = last'.session_id)
        => last'.raised \in VaultErrors ]_vars

C4_NoLeak ==
    (last.op = "protect" /\ last.raised = "none")
    => \A i \in 1..Len(last.scan_results) :
          ~Contains(last.ret[1], last.scan_results[i].value)

\* the tokens of value_to_token are pairwise different
DistinctTokens(value_to_token) ==
    \A j, k \in 1..Len(value_to_token) :
       j # k => value_to_token[j].token # value_to_token[k].token

\* the i-th protect() call of the list drew a session id and tokens that no
\* other call of the list drew and that do not occur in its input
FreshDraws(calls, i) ==
    /\ DistinctTokens(calls[i].value_to_token)
    /\ \A k \in 1..Len(calls[i].value_to_token) :
          ~Contains(calls[i].user_input, calls[i].value_to_token[k].token)
    /\ \A j \in (1..Len(calls)) \ {i} :
          /\ calls[j].session_id # calls[i].session_id
          /\ \A k \in 1..Len(calls[i].value_to_token) :
                \A m \in 1..Len(calls[j].value_to_token) :
                   calls[j].value_to_token[m].token
                      # calls[i].value_to_token[k].token

\* C5 as stated: restoring the safe_content of a protect() call under the
\* session id the call returned gives back the input of the call (the text
\* specification has no revoke, purge or expiry).  Stated for the calls
\* whose random draws collide with nothing.
C5_RoundTrip ==
    last.op = "restore"
    => \A i \in 1..Len(issued) :
          (/\ last.content = issued[i].safe_content
           /\ last.session_id = issued[i].session_id
           /\ FreshDraws(issued, i))
          => (last.raised = "none" /\ last.ret = <<issued[i].user_input>>)

\* v is a value of value_to_token that is inside no other value of it
Maximal(value_to_token, v) ==
    \A k \in 1..Len(value_to_token) :
       value_to_token[k].value = v \/ ~Contains(value_to_token[k].value, v)

\* C6 as stated: a value that occurs several times in the input of a
\* protect() call is stored once (one 'store' record for each value of the
\* call, one entry of the session holding the value) and each of its
\* occurrences is replaced by the one token mapped to it.  Stated for the
\* calls whose random draws collide with nothing and for the values that
\* are inside no other vaulted value.
C6_IdempotentVaulting ==
    [][ (CallStep("protect") /\ last'.raised = "none"
         /\ last'.scan_results # <<>> /\ FreshDraws(issued', Len(issued')))
        => /\ Len(Appended) = NumValues(last'.scan_results)
           /\ \A k \in 1..Len(last'.value_to_token) :
                 LET v  == last'.value_to_token[k].value
                     tk == last'.value_to_token[k].token
                 IN (Count(last'.content, v) >= 2
                     /\ Maximal(last'.value_to_token, v))
                    => /\ Cardinality({t \in DOMAIN _store' :
                             /\ _store'[t].session_id = last'.session_id
                             /\ _store'[t].encrypted_value.sealed = v}) = 1
                       /\ ~Contains(last'.ret[1], v)
                       /\ Count(last'.ret[1], tk) = Count(last'.content, v) ]_vars

\* the 1-based indices of safe_content at which an opening delimiter stands
\* that does not begin one of the tokens of value_to_token, whole
BrokenTokenStarts(safe_content, value_to_token) ==
    {i \in 1..Len(safe_content) :
        /\ safe_content[i] = _OPEN
        /\ \A k \in 1..Len(value_to_token) :
              ~MatchAt(safe_content, value_to_token[k].token, i)}

\* C7 as stated: when a vaulted value v2 is a substring of another vaulted
\* value v1 of the same protect() call, every occurrence of v1 in the input
\* is replaced by token(v1) as a whole, and every token put into
\* safe_content stands there with its text unaltered.  Stated for the calls
\* whose tokens are pairwise different.
C7_SubstringSafety ==
    (last.op = "protect" /\ last.raised = "none"
     /\ DistinctTokens(last.value_to_token))
    => \A j, k \in 1..Len(last.value_to_token) :
          LET v1 == last.value_to_token[j].value
              v2 == last.value_to_token[k].value
          IN (v1 # v2 /\ Contains(v1, v2) /\ Maximal(last.value_to_token, v1))
             => /\ Count(last.ret[1], last.value_to_token[j].token)
                     = Count(last.content, v1)
                /\ BrokenTokenStarts(last.ret[1], last.value_to_token) = {}

\* the alerts a step fires
NewAlerts == SubSeq(_fired_alerts', Len(_fired_alerts) + 1, Len(_fired_alerts'))

\* alert a is the alert of the entry e stored under token tk
AlertOf(a, tk, e) ==
    /\ a.severity = CRITICAL
    /\ a.data_type = e.data_type
    /\ a.family = e.family
    /\ a.token = Slice(tk, 0, 16) \o <<".", ".", ".">>
    /\ a.session_id = Slice(e.session_id, 0, 12) \o <<".", ".", ".">>

\* C8: with alerts enabled, each entry stored by a protect() call whose
\* alert_level is CRITICAL or whose family is a critical family has its alert
\* in the alerts the call returns, the call fires no alert for an entry that
\* meets neither condition, and it fires one alert for each that meets one.
C8_AlertThreshold ==
    [][ (alerts_enabled /\ CallStep("protect") /\ last'.raised = "none")
        => LET vt   == last'.value_to_token
               crit == {k \in 1..Len(vt) :
                          \/ _store'[vt[k].token].alert_level = "CRITICAL"
                          \/ _store'[vt[k].token].family \in {"SECRETS", "FINANCIAL"}}
           IN /\ \A k \in crit :
                    \E i \in 1..Len(last'.alerts) :
                       AlertOf(last'.alerts[i], vt[k].token, _store'[vt[k].token])
              /\ \A k \in (1..Len(vt)) \ crit :
                    \A i \in 1..Len(NewAlerts) :
                       ~AlertOf(NewAlerts[i], vt[k].token, _store'[vt[k].token])
              /\ Len(NewAlerts) = Cardinality(crit) ]_vars

\* C8 witness: a protect() call has stored one entry that is critical and
\* one that is not, and returned
C8_Witness ==
    /\ last.op = "protect"
    /\ last.raised = "none"
    /\ \E j, k \in 1..Len(last.value_to_token) :
          /\ _store[last.value_to_token[j].token].alert_level = "CRITICAL"
          /\ _store[last.value_to_token[k].token].alert_level # "CRITICAL"
          /\ _store[last.value_to_token[k].token].family \notin critical_families
    /\ last.alerts # <<>>

\* the audit result res is the one that goes with the exception raised
OutcomeMatches(res, raised) ==
    \/ (raised = "none" /\ res = "success")
    \/ (raised = "TokenExpiredError" /\ res = "expired")
    \/ (raised = "VaultAccessError" /\ res \in {"denied", "revoked", "not_found"})

\* a direct retrieve appends exactly one 'retrieve' record, with its outcome
AuditOfRetrieve ==
    CallStep("retrieve")
    => /\ Len(Appended) = 1
       /\ Appended[1].operation = "retrieve"
       /\ Appended[1].token = _mask_token(last'.content)
       /\ Appended[1].session_id = _mask_session(last'.session_id)
       /\ Appended[1].caller = last'.caller
       /\ OutcomeMatches(Appended[1].result, last'.raised)

\* a restore appends one 'retrieve' record for each attempt it makes: a
\* success for every token resolved, then the failure it raised on if any
AuditOfRestore ==
    CallStep("restore")
    => /\ \A k \in 1..Len(Appended) :
             /\ Appended[k].operation = "retrieve"
             /\ Appended[k].caller = RESOLVER
             /\ Appended[k].session_id = _mask_session(last'.session_id)
             /\ (k < Len(Appended) => Appended[k].result = "success")
       /\ last'.raised = "none"
          => /\ Len(Appended) = Cardinality(Range(find_tokens(last'.content)))
             /\ \A k \in 1..Len(Appended) : Appended[k].result = "success"
       /\ last'.raised # "none"
          => /\ Appended # <<>>
             /\ Appended[Len(Appended)].result # "success"
             /\ OutcomeMatches(Appended[Len(Appended)].result, last'.raised)

\* revoke_session and purge_session append exactly one record each
AuditOfAdmin ==
    /\ CallStep("revoke_session")
       => /\ Len(Appended) = 1
          /\ Appended[1].operation = "revoke"
          /\ Appended[1].result = "success"
          /\ Appended[1].session_id = _mask_session(last'.session_id)
          /\ Appended[1].count = last'.ret
    /\ CallStep("purge_session")
       => /\ Len(Appended) = 1
          /\ Appended[1].operation = "purge"
          /\ Appended[1].result = "success"
          /\ Appended[1].session_id = _mask_session(last'.session_id)
          /\ Appended[1].count = last'.ret

\* the Vault.store calls a protect step made: one for each value it mapped,
\* and the one that raised if it raised
StoreCalls ==
    Len(last'.value_to_token) + (IF last'.raised = "none" THEN 0 ELSE 1)

\* every Vault.store call of a protect step appended its 'store' record
AuditOfStoreAsStated ==
    CallStep("protect")
    => /\ Len(Appended) = StoreCalls
       /\ \A k \in 1..Len(Appended) :
             Appended[k].operation = "store" /\ Appended[k].result = "success"

\* every Vault.store call that returned appended its 'store' record; the one
\* that raised did so on a token held by another session and appended none
AuditOfStoreReturned ==
    CallStep("protect")
    => /\ Len(Appended) = Len(last'.value_to_token)
       /\ \A k \in 1..Len(Appended) :
             /\ Appended[k].operation = "store"
             /\ Appended[k].result = "success"
             /\ Appended[k].token = _mask_token(last'.value_to_token[k].token)
             /\ Appended[k].session_id = _mask_session(last'.session_id)
       /\ last'.raised # "none"
          => /\ last'.raised = "ValueError"
             /\ \E i \in 1..Len(last'.scan_results), h \in HexSet :
                   LET tk == generate_token(last'.scan_results[i].type, h)
                   IN /\ tk \in DOMAIN _store
                      /\ _store[tk].session_id # last'.session_id

\* C9 as stated: every store, revoke, purge and retrieve attempt appends
\* exactly one audit record naming the operation and the outcome, and no
\* vault operation returns or raises without its record.
C9_EveryOperationRecorded ==
    [][ /\ AuditOfStoreAsStated
        /\ AuditOfRetrieve
        /\ AuditOfRestore
        /\ AuditOfAdmin ]_vars

\* C9 amended: every store that returns, every revoke, every purge and every
\* retrieve attempt whatever its outcome appends exactly one audit record
\* naming the operation and the outcome; the one operation that raises
\* without a record is a store whose token is already held by another
\* session (the backend's collision error comes before the record).
C9_AuditCompleteness ==
    [][ /\ AuditOfStoreReturned
        /\ AuditOfRetrieve
        /\ AuditOfRestore
        /\ AuditOfAdmin ]_vars

\* C9 witness: an entry has outlived its expiry, its owner's restore raised
\* TokenExpiredError and the log ends with the 'expired' record
C9_Witness ==
    /\ last.op = "restore"
    /\ last.raised = "TokenExpiredError"
    /\ _entries[Len(_entries)].operation = "retrieve"
    /\ _entries[Len(_entries)].result = "expired"

\* C10: the audit log after every step has the log before it as a prefix
C10_AuditAppendOnly == [][IsPrefix(_entries, _entries')]_vars

\* C10 witness: a purge that deleted entries has left the earlier audit
\* records of its session in the log
C10_Witness ==
    /\ last.op = "purge_session"
    /\ last.ret # <<0>>
    /\ \E k \in 1..Len(_entries) :
          /\ _entries[k].operation = "store"
          /\ _entries[k].session_id = _mask_session(last.session_id)


\* ------------------------------------------------------------------ C11
\* the audit records written by the calls made with session id s, in the
\* order they were written
RecordsOf(s) ==
    LET idx == SelectSeq([i \in 1..Len(_entries) |-> i],
                         LAMBDA i : audit_sessions[i] = s)
    IN [k \in 1..Len(idx) |-> _entries[idx[k]]]

\* the raw records behind the AuditEntry list an audit() call returned
Returned(entries) == [k \in 1..Len(entries) |-> entries[k].access_log[1]]

\* C11 as stated: audit(s) returns exactly the records of the operations
\* performed with session id s, in operation order, and the empty list for
\* a session id no operation ever used (the empty string and a session id
\* that shares a prefix with a real one included).
C11_AuditProjection ==
    (last.op = "audit" /\ last.raised = "none")
       => Returned(last.ret[1]) = RecordsOf(last.session_id)

\* ------------------------------------------------------------------ C12
\* C12 as stated: when restore with session id B is denied a token held by
\* session A, the denial record is in audit(A) and in audit(B).
C12_DenialInBothViews ==
    [][ CallStep("restore")
        => \A k \in 1..Len(Appended) :
              Appended[k].result = "denied"
                 => \A t \in ForeignTokens(last'.content, last'.session_id) :
                       _mask_token(t) = Appended[k].token
                          => /\ Appended[k] \in
                                   Range(get_entries(_entries', last'.session_id))
                             /\ Appended[k] \in
                                   Range(get_entries(_entries',
                                                     _store[t].session_id)) ]_vars


\* ------------------------------------------------------------------ C13
\* C13: retrieve returns a value only to OWNER or RESOLVER presenting the
\* session id of the entry, and the value is the one vaulted; any other
\* caller, whatever session id it presents, gets VaultAccessError and no value.
C13_CallerRule ==
    [][ CallStep("retrieve")
        => LET token == last'.content
           IN /\ (last'.ret # <<>>)
                    => /\ last'.caller \in {"OWNER", "RESOLVER"}
                       /\ token \in DOMAIN _store
                       /\ _store[token].session_id = last'.session_id
                       /\ last'.raised = "none"
                       /\ \E i \in 1..Len(issued) :
                             \E j \in 1..Len(issued[i].value_to_token) :
                                /\ issued[i].value_to_token[j].token = token
                                /\ issued[i].value_to_token[j].value = last'.ret[1]
              /\ (last'.caller \notin {"OWNER", "RESOLVER"})
                    => /\ last'.raised = "VaultAccessError"
                       /\ last'.ret = <<>> ]_vars

\* C13 witness: the caller AI, presenting the session id of a live entry,
\* has been refused
C13_Witness ==
    /\ last.op = "retrieve"
    /\ last.caller = "AI"
    /\ Active(last.content, last.session_id)
    /\ last.raised = "VaultAccessError"
    /\ last.ret = <<>>
    /\ _entries[Len(_entries)].result = "denied"

\* ------------------------------------------------------------------ C14
\* the entry is past its expiry at the clock of the call
Expired(e) == e.expires_at # <<>> /\ now > e.expires_at[1]

\* the one audit record a retrieve step appends has this result and the
\* call raised this exception
Reported(result, raised) ==
    /\ Len(Appended) = 1
    /\ Appended[1].operation = "retrieve"
    /\ Appended[1].result = result
    /\ last'.raised = raised

\* C14 as stated: access control is reported before any other outcome, so a
\* disallowed caller is always recorded 'denied', and an entry both revoked
\* and expired is reported 'revoked'.
C14_AccessControlFirst ==
    [][ CallStep("retrieve")
        => LET token == last'.content
           IN /\ (last'.caller \notin {"OWNER", "RESOLVER"})
                    => Reported("denied", "VaultAccessError")
              /\ (/\ token \in DOMAIN _store
                  /\ last'.caller \in {"OWNER", "RESOLVER"}
                  /\ _store[token].session_id = last'.session_id
                  /\ _store[token].revoked /\ Expired(_store[token]))
                    => Reported("revoked", "VaultAccessError") ]_vars

\* C14 amended: a token that is not in the vault is reported 'not_found'
\* whoever the caller; for a token in the vault the checks run in the order
\* access control, revocation, expiry, and the record and the exception are
\* those of the first check that fails.
C14_CheckOrder ==
    [][ CallStep("retrieve")
        => LET token == last'.content
               allowed == /\ last'.caller \in {"OWNER", "RESOLVER"}
                          /\ _store[token].session_id = last'.session_id
           IN IF token \notin DOMAIN _store
              THEN Reported("not_found", "VaultAccessError")
              ELSE IF ~allowed
              THEN Reported("denied", "VaultAccessError")
              ELSE IF _store[token].revoked
              THEN Reported("revoked", "VaultAccessError")
              ELSE IF Expired(_store[token])
              THEN Reported("expired", "TokenExpiredError")
              ELSE Reported("success", "none") /\ last'.ret # <<>> ]_vars

\* C14 witness: the owner's retrieve of an entry that is revoked and past
\* its expiry has been reported 'revoked' with VaultAccessError
C14_Witness ==
    /\ last.op = "retrieve"
    /\ last.caller = OWNER
    /\ last.content \in DOMAIN _store
    /\ _store[last.content].session_id = last.session_id
    /\ _store[last.content].revoked
    /\ Expired(_store[last.content])
    /\ last.raised = "VaultAccessError"
    /\ _entries[Len(_entries)].result = "revoked"

\* ------------------------------------------------------------------ C15
\* C15: with a lifetime m > 0 the owner's retrieve of a non-revoked entry
\* later than created_at + m raises TokenExpiredError and records 'expired';
\* with m = 0 the entry has no expires_at and the retrieve succeeds at any
\* time.  The clock never goes back and no call changes created_at or
\* expires_at of an entry, so an expired entry stays expired.
C15_Expiry ==
    [][ /\ CallStep("retrieve")
           => LET token == last'.content
              IN (/\ token \in DOMAIN _store
                  /\ last'.caller \in {"OWNER", "RESOLVER"}
                  /\ _store[token].session_id = last'.session_id
                  /\ ~_store[token].revoked)
                    => /\ (_expiry_mins > 0
                             /\ now > _store[token].created_at + _expiry_mins)
                          => /\ Reported("expired", "TokenExpiredError")
                             /\ last'.ret = <<>>
                       /\ (_expiry_mins > 0
                             /\ now <= _store[token].created_at + _expiry_mins)
                          => Reported("success", "none")
                       /\ (_expiry_mins = 0)
                          => /\ _store[token].expires_at = <<>>
                             /\ Reported("success", "none")
                             /\ last'.ret # <<>>
        /\ now' >= now
        /\ _expiry_mins' = _expiry_mins
        /\ \A t \in (DOMAIN _store) \cap (DOMAIN _store') :
              /\ _store'[t].created_at = _store[t].created_at
              /\ _store'[t].expires_at = _store[t].expires_at ]_vars

\* C15 witness: more than the lifetime after the store, the owner's retrieve
\* of a non-revoked entry has raised TokenExpiredError
C15_Witness ==
    /\ last.op = "retrieve"
    /\ last.content \in DOMAIN _store
    /\ _store[last.content].session_id = last.session_id
    /\ ~_store[last.content].revoked
    /\ _expiry_mins > 0
    /\ now > _store[last.content].created_at + _expiry_mins
    /\ last.raised = "TokenExpiredError"
    /\ _entries[Len(_entries)].result = "expired"


\* ------------------------------------------------------------------ C16
\* the sessions that have left ACTIVE: revoke_session or purge_session has
\* revoked or deleted entries of the session, or entries protect() stored
\* under it have expired
DeadSessions ==
    {audit_sessions[i] : i \in {k \in 1..Len(_entries) :
                                   /\ _entries[k].operation \in {"revoke", "purge"}
                                   /\ _entries[k].count[1] >= 1}}
      \cup {issued[i].session_id : i \in {k \in 1..Len(issued) :
                                   /\ issued[k].value_to_token # <<>>
                                   /\ _expiry_mins > 0
                                   /\ now > issued[k].at + _expiry_mins}}

\* C16 as stated: a revoked flag that is true stays true, and no retrieve or
\* restore made with the id of a session that has become REVOKED, EXPIRED or
\* ABSENT resolves a token.
C16_SessionMonotone ==
    [][ /\ \A t \in (DOMAIN _store) \cap (DOMAIN _store') :
              _store[t].revoked => _store'[t].revoked
        /\ ((CallStep("retrieve") \/ CallStep("restore"))
              /\ last'.session_id \in DeadSessions)
           => \A k \in 1..Len(Appended) : Appended[k].result # "success" ]_vars


\* ------------------------------------------------------------------ C17
\* C17 as stated: with the default resolver flags, restore of content whose
\* tokens are live for the session except for well-formed tokens that are
\* not in the vault returns normally and leaves those tokens in place.
C17_UnknownTokenLeftInPlace ==
    [][ (/\ CallStep("restore")
         /\ strict_session /\ leave_unresolved
         /\ \E t \in Range(find_tokens(last'.content)) : t \notin DOMAIN _store
         /\ \A t \in Range(find_tokens(last'.content)) :
               t \in DOMAIN _store => Active(t, last'.session_id))
        => /\ last'.raised = "none"
           /\ last'.ret # <<>>
           /\ \A t \in Range(find_tokens(last'.content)) :
                 t \notin DOMAIN _store
                    => /\ validate_token(t)
                       /\ Contains(last'.ret[1], t) ]_vars


\* ------------------------------------------------------------------ C18
\* C18 as stated: a protect() whose scan finds nothing returns
\* items_vaulted = 0 and the input as safe_content, changes neither the
\* vault entries nor the audit log nor the alert buffer, and audit of the
\* returned session id is empty.
C18_CleanInput ==
    [][ (CallStep("protect") /\ last'.scan_results = <<>>
           /\ scan(last'.content) = <<>>)
        => /\ last'.raised = "none"
           /\ last'.count = <<0>>
           /\ last'.ret = <<last'.content>>
           /\ UNCHANGED <<_store, _entries, _fired_alerts>>
           /\ AuditEntries(get_entries(_entries', last'.session_id),
                           last'.session_id) = <<>> ]_vars

\* ------------------------------------------------------------------ C19
\* C19 as stated: whatever the type name, the token generate_token returns
\* is accepted by validate_token and is the one token find_tokens finds in
\* a text that holds it.
C19_TokenValidity ==
    /\ (last.op = "generate_token") => validate_token(last.ret[1])
    /\ (last.op = "find_tokens") => last.ret = <<last.content>>

\* ------------------------------------------------------------------ C20
\* C20 as stated: under a configured family filter no ScanResult protect()
\* returns and no entry it has vaulted has a family outside enabled_families.
C20_FamilyFilter ==
    (last.op = "protect" /\ enabled_families # {})
       => /\ \A i \in 1..Len(last.scan_results) :
                last.scan_results[i].family \in enabled_families
          /\ \A t \in DOMAIN _store : _store[t].family \in enabled_families

\* ------------------------------------------------------------------ C21
\* C21 as stated: at the default sensitivity every ScanResult of type
\* AADHAAR the scanner returns has a value that passes the Verhoeff check,
\* and every ScanResult of type CREDIT_CARD a value that passes the Luhn
\* check, whichever engine emitted it.
C21_ValidatorCoupling ==
    last.op = "protect"
       => \A i \in 1..Len(last.scan_results) :
             /\ last.scan_results[i].type = Ty_AADHAAR
                   => verhoeff_validate(last.scan_results[i].value)
             /\ last.scan_results[i].type = Ty_CREDIT_CARD
                   => luhn_validate(last.scan_results[i].value)

\* ------------------------------------------------------------------ C22
\* the value protect() vaulted under token
PlaintextOf(token) ==
    {issued[i].value_to_token[j].value :
        <<i, j>> \in {p \in (1..Len(issued)) \X (1..2) :
                        /\ p[2] <= Len(issued[p[1]].value_to_token)
                        /\ issued[p[1]].value_to_token[p[2]].token = token}}

CandidateTokens ==
    {generate_token(last'.scan_results[1].type, h) : h \in HexSet}

C24_TokenValueBinding ==
    (last.op = "protect" /\ last.raised = "none")
       => \A k \in 1..Len(last.value_to_token) :
             LET r == VaultRetrieve(Vault, now, last.value_to_token[k].token,
                                    last.session_id, RESOLVER)
             IN /\ r.raised = "none"
                /\ r.value = <<last.value_to_token[k].value>>
                /\ \A j \in 1..Len(last.value_to_token) :
                      j # k => last.value_to_token[j].token
                                  # last.value_to_token[k].token

\* ------------------------------------------------------------------ C25
\* C25: a retrieve or a restore, whatever its outcome, leaves the set of
\* vault entries and every field of every entry as they were (and the alert
\* buffer too); the audit log only grows.  No step but purge_session removes
\* an entry, so an expired entry stays in storage until it is purged.
C25_ReadsChangeNoEntry ==
    [][ /\ (CallStep("retrieve") \/ CallStep("restore"))
           => /\ _store' = _store
              /\ _fired_alerts' = _fired_alerts
              /\ IsPrefix(_entries, _entries')
              /\ \A k \in 1..Len(Appended) : Appended[k].operation = "retrieve"
        /\ (\E t \in DOMAIN _store : t \notin DOMAIN _store')
           => CallStep("purge_session") ]_vars

\* C25 witness: a token that had been resolved once has been retrieved again
\* after its expiry; the call raised TokenExpiredError and the expired
\* entry is still in storage
C25_Witness ==
    /\ last.op = "retrieve"
    /\ last.raised = "TokenExpiredError"
    /\ last.content \in DOMAIN _store
    /\ Expired(_store[last.content])
    /\ \E k \in 1..Len(_entries) :
          /\ _entries[k].operation = "retrieve"
          /\ _entries[k].result = "success"
          /\ _entries[k].token = _mask_token(last.content)

\* ------------------------------------------------------------------ C26
\* C26: revoke_session(s) and purge_session(s) leave every entry stored
\* under another session id in the vault with all its fields as they were;
\* revoke_session removes no entry; and an entry that is live for its own
\* session is given to that session's owner, whatever was revoked or purged
\* before.
C26_AdminTouchesOwnSession ==
    [][ /\ (CallStep("revoke_session") \/ CallStep("purge_session"))
           => \A t \in DOMAIN _store :
                 _store[t].session_id # last'.session_id
                    => /\ t \in DOMAIN _store'
                       /\ _store'[t] = _store[t]
        /\ CallStep("revoke_session") => DOMAIN _store' = DOMAIN _store
        /\ (CallStep("retrieve") /\ last'.caller = OWNER
              /\ Active(last'.content, last'.session_id))
           => /\ last'.raised = "none"
              /\ last'.ret = decrypt_value(_store[last'.content].encrypted_value,
                                           last'.session_id)
              /\ last'.ret # <<>> ]_vars

\* C26 witness: after a revoke or purge that hit entries of one session, the
\* owner of another session has retrieved its value
C26_Witness ==
    /\ last.op = "retrieve"
    /\ last.raised = "none"
    /\ last.ret # <<>>
    /\ \E k \in 1..Len(_entries) :
          /\ _entries[k].operation \in {"revoke", "purge"}
          /\ _entries[k].count[1] >= 1
          /\ audit_sessions[k] # last.session_id

\* ------------------------------------------------------------------ C27
\* the value sealed in the entry of token
Sealed(token) == _store[token].encrypted_value.sealed

\* C27: whatever strict_session and leave_unresolved are, a restore with
\* session id B of content that holds tokens of other sessions returns
\* nothing when it raises, and when it returns it has left every such token
\* in place, has resolved none of them, and its result holds the value of
\* such a token only where the content already held it or where a live
\* token of B itself stands for the same value.  With strict_session off the
\* call does not raise and each foreign token has its 'denied' record.
C27_NoCrossSessionDisclosure ==
    [][ (CallStep("restore")
         /\ ForeignTokens(last'.content, last'.session_id) # {})
        => LET content == last'.content
               B       == last'.session_id
               foreign == ForeignTokens(content, B)
           IN /\ last'.raised # "none" => last'.ret = <<>>
              /\ last'.raised = "none"
                 => \A t \in foreign :
                       /\ Count(last'.ret[1], t) = Count(content, t)
                       /\ Contains(last'.ret[1], Sealed(t))
                          => \/ Contains(content, Sealed(t))
                             \/ \E t2 \in Range(find_tokens(content)) :
                                   Active(t2, B) /\ Sealed(t2) = Sealed(t)
              /\ \A k \in 1..Len(Appended) : \A t \in foreign :
                    Appended[k].token = _mask_token(t)
                       => Appended[k].result = "denied"
              /\ ~_strict_session
                 => /\ last'.raised = "none"
                    /\ \A t \in foreign : \E k \in 1..Len(Appended) :
                          /\ Appended[k].operation = "retrieve"
                          /\ Appended[k].token = _mask_token(t)
                          /\ Appended[k].session_id = _mask_session(B)
                          /\ Appended[k].result = "denied" ]_vars

\* C27 witness: with strict_session off, a restore of content holding a
\* live token of another session has returned the content with the token in
\* place, and the log ends with the denial
C27_Witness ==
    /\ ~_strict_session
    /\ last.op = "restore"
    /\ last.raised = "none"
    /\ \E t \in ForeignTokens(last.content, last.session_id) :
          /\ Active(t, _store[t].session_id)
          /\ Contains(last.ret[1], t)
          /\ ~Contains(last.ret[1], Sealed(t))
    /\ _entries # <<>>
    /\ _entries[Len(_entries)].result = "denied"

\* ------------------------------------------------------------------ C28
\* C28 as stated: every alert in the alerts list a protect() call returns
\* was fired by that call, for an entry it stored; the alerts of earlier
\* protect() calls on the same gateway are not in it.
C28_OwnAlertsOnly ==
    [][ (CallStep("protect") /\ last'.raised = "none")
        => \A i \in 1..Len(last'.alerts) :
              /\ \E k \in 1..Len(NewAlerts) : NewAlerts[k] = last'.alerts[i]
              /\ \E k \in 1..Len(last'.value_to_token) :
                    last'.alerts[i].token
                       = Slice(last'.value_to_token[k].token, 0, 16)
                            \o <<".", ".", ".">> ]_vars

\* ---- mappings
\* every string a mapping holds, at any depth: string values and the
\* strings inside list values
RECURSIVE StringsHeld(_)
StringsHeld(content) ==
    UNION {IF content[k].kind = "str" THEN {content[k].value}
           ELSE IF content[k].kind = "dict" THEN StringsHeld(content[k].value)
           ELSE Range(content[k].value) : k \in 1..Len(content)}

\* the fields of a mapping that are text-scanned, at any depth, in a list
RECURSIVE ScannedFields(_, _)
ScannedFields(data, k) ==
    IF k > Len(data) THEN <<>>
    ELSE (IF data[k].kind = "dict" THEN ScannedFields(data[k].value, 1)
          ELSE <<data[k]>>) \o ScannedFields(data, k + 1)

\* C29: after protect() returned on a mapping, no value it vaulted occurs in
\* any string held anywhere in safe_content, strings inside list values
\* included.
C29_NoLeakMapping ==
    (last.op = "protect" /\ last.raised = "none") =>
        \A k \in 1..Len(last.value_to_token) :
            \A s \in StringsHeld(last.ret[1]) :
                ~Contains(s, last.value_to_token[k].value)

\* C30: every value the scanner reports for one field's value scanned alone
\* as text is also reported by the scan of the whole mapping.
C30_NoFindingLost ==
    last.op = "protect" =>
        LET fields == ScannedFields(last.content, 1)
            whole  == _scan_dict(last.content)
        IN \A f \in 1..Len(fields) :
               \A i \in 1..Len(scan(StrOf(fields[f]))) :
                   \E j \in 1..Len(whole) :
                       whole[j].value = scan(StrOf(fields[f]))[i].value

====
